---- MODULE Spec2Model ----
(***************************************************************************)
(* A model of the plurk-backup-viewer tools: the SQLite store with its     *)
(* FTS5 external-content indexes and triggers (database.py, links_cmd.py), *)
(* the incremental import run (database.py main / init_cmd.py              *)
(* build_database), the scan planner (utils.py), the index rebuild         *)
(* (reindex_cmd.py) and the link extraction / metadata-fetch passes        *)
(* (links_cmd.py).                                                         *)
(*                                                                         *)
(* Two copies of the store are kept: db is what is committed (what any     *)
(* other connection reads), conn is what the writing connection sees,      *)
(* uncommitted changes included.  Python's sqlite3 opens a transaction     *)
(* implicitly before INSERT/UPDATE and keeps it until conn.commit();       *)
(* executescript() commits first and then runs each statement of the       *)
(* script in autocommit mode.                                              *)
(***************************************************************************)
EXTENDS Integers, Sequences, FiniteSets, Bags, TLC

VARIABLES
    db,     \* the committed store
    conn,   \* the writer connection's view of the store
    run,    \* the running command: its position and local variables
    prev,   \* what the last completed rebuild_fts left (history)
    ncmd    \* the number of commands started so far

vars == <<db, conn, run, prev, ncmd>>

----------------------------------------------------------------------------
(* Bounds of the model *)

MaxFileLen == 2
MaxCommands == 3
MaxScanYears == 2
MaxLinkCalls == 3
MaxLimit == 2
MaxPasses == 2
MaxRetries == 3
MaxPage == 3
MaxInterrupts == 2
MaxOver == 1

(* Program constants *)

SCAN_BACK_MONTHS == 6
GAP_THRESHOLD == 6

----------------------------------------------------------------------------
(* Text.  A string that the code compares or sorts is a sequence of        *)
(* character codes; SQLite's BINARY collation and Python's str comparison  *)
(* both order such strings lexicographically.                              *)

NULL == "NULL"

RECURSIVE LexLess(_, _)
LexLess(s, t) ==
    IF t = <<>> THEN FALSE
    ELSE IF s = <<>> THEN TRUE
    ELSE IF Head(s) # Head(t) THEN Head(s) < Head(t)
    ELSE LexLess(Tail(s), Tail(t))

LexLeq(s, t) == s = t \/ LexLess(s, t)

Chr == [zero |-> 48, hyphen |-> 45, underscore |-> 95, comma |-> 44, space |-> 32]
Digit(n) == Chr.zero + n
Hyphen == Chr.hyphen
Underscore == Chr.underscore
Comma == Chr.comma
Space == Chr.space

TwoDigits(n) == <<Digit(n \div 10), Digit(n % 10)>>
FourDigits(n) ==
    <<Digit(n \div 1000), Digit((n \div 100) % 10), Digit((n \div 10) % 10), Digit(n % 10)>>

(* date.strftime("%Y-%m") *)
strftime_Ym(d) == FourDigits(d.year) \o <<Hyphen>> \o TwoDigits(d.month)

(* The stem of a plurk file name, YYYY_MM, and file.stem.replace("_", "-") *)
PlurkStem(y, m) == FourDigits(y) \o <<Underscore>> \o TwoDigits(m)
replace_underscore(s) == [i \in 1..Len(s) |-> IF s[i] = Underscore THEN Hyphen ELSE s[i]]

----------------------------------------------------------------------------
(* Posting timestamps.  The archive writes them as                         *)
(* "Wed, 31 Oct 2018 16:00:47 GMT"; ISO strings "2025-06-15T10:30:00" are  *)
(* stored as well.  A timestamp is kept as the fields its text is written  *)
(* from; TimestampText is the text, parse_date reads the date back.        *)

WeekdayNames == <<<<83,117,110>>, <<77,111,110>>, <<84,117,101>>, <<87,101,100>>,
                  <<84,104,117>>, <<70,114,105>>, <<83,97,116>>>>
MonthNames == <<<<74,97,110>>, <<70,101,98>>, <<77,97,114>>, <<65,112,114>>,
                <<77,97,121>>, <<74,117,110>>, <<74,117,108>>, <<65,117,103>>,
                <<83,101,112>>, <<79,99,116>>, <<78,111,118>>, <<68,101,99>>>>

SakamotoTable == <<0, 3, 2, 5, 0, 3, 5, 1, 4, 6, 2, 4>>
DayOfWeek(y, m, d) ==
    LET yy == IF m < 3 THEN y - 1 ELSE y
    IN (yy + (yy \div 4) - (yy \div 100) + (yy \div 400) + SakamotoTable[m] + d) % 7

Date(y, m, d) == [year |-> y, month |-> m, day |-> d]
Timestamp(fmt, y, m, d) == [fmt |-> fmt, year |-> y, month |-> m, day |-> d]

TimestampText(ts) ==
    IF ts.fmt = "iso"
    THEN FourDigits(ts.year) \o <<Hyphen>> \o TwoDigits(ts.month) \o <<Hyphen>>
         \o TwoDigits(ts.day)
    ELSE WeekdayNames[DayOfWeek(ts.year, ts.month, ts.day) + 1] \o <<Comma, Space>>
         \o TwoDigits(ts.day) \o <<Space>> \o MonthNames[ts.month] \o <<Space>>
         \o FourDigits(ts.year)

(* dateutil's parse(...).date(): the calendar date the text names *)
parse_date(ts) == Date(ts.year, ts.month, ts.day)

----------------------------------------------------------------------------
(* The store.  objs is sqlite_master (the names of the tables, virtual     *)
(* tables and triggers that exist); plurks, responses and links are the    *)
(* entity tables (functions from the primary key to the row); idx holds    *)
(* the entries of each FTS5 index as a bag of <<rowid, indexed text>>, and *)
(* tok its tokenizer.                                                      *)

EntityTables == {"plurks", "responses", "link_metadata"}
FtsOf == [plurks |-> "plurks_fts", responses |-> "responses_fts",
          link_metadata |-> "link_metadata_fts"]
FtsTables == {"plurks_fts", "responses_fts", "link_metadata_fts"}
TriggerOf == [plurks |-> [ai |-> "plurks_ai", ad |-> "plurks_ad", au |-> "plurks_au"],
              responses |-> [ai |-> "responses_ai", ad |-> "responses_ad",
                             au |-> "responses_au"],
              link_metadata |-> [ai |-> "link_metadata_ai", ad |-> "link_metadata_ad",
                                 au |-> "link_metadata_au"]]
Tokenizers == {"unicode61", "icu zh"}

NoFile ==
    [exists |-> FALSE, objs |-> {}, plurks |-> <<>>, responses |-> <<>>, links |-> <<>>,
     idx |-> [f \in FtsTables |-> EmptyBag], tok |-> [f \in FtsTables |-> "none"]]

(* sqlite3.connect(path) creates the database file when it is missing *)
connect(c) == [c EXCEPT !.exists = TRUE]

(* The rows of the three entity tables *)
Rows(c) == [plurks |-> c.plurks, responses |-> c.responses, links |-> c.links]

(* One statement of a schema script.  Every CREATE is IF NOT EXISTS and    *)
(* every DROP is IF EXISTS.                                                *)
CreateTable(n) == [kind |-> "create_table", name |-> n, tokenize |-> "none"]
CreateFts(n, t) == [kind |-> "create_fts", name |-> n, tokenize |-> t]
CreateTrigger(n) == [kind |-> "create_trigger", name |-> n, tokenize |-> "none"]
DropTrigger(n) == [kind |-> "drop_trigger", name |-> n, tokenize |-> "none"]
DropTable(n) == [kind |-> "drop_table", name |-> n, tokenize |-> "none"]

exec_statement(c, st) ==
    CASE st.kind \in {"create_table", "create_trigger"} ->
            [c EXCEPT !.objs = @ \cup {st.name}]
      [] st.kind = "create_fts" ->
            IF st.name \in c.objs THEN c
            ELSE [c EXCEPT !.objs = @ \cup {st.name},
                           !.idx[st.name] = EmptyBag,
                           !.tok[st.name] = st.tokenize]
      [] st.kind = "drop_trigger" ->
            [c EXCEPT !.objs = @ \ {st.name}]
      [] st.kind = "drop_table" ->
            IF st.name \in FtsTables
            THEN [c EXCEPT !.objs = @ \ {st.name},
                           !.idx[st.name] = EmptyBag,
                           !.tok[st.name] = "none"]
            ELSE [c EXCEPT !.objs = @ \ {st.name},
                           !.plurks = IF st.name = "plurks" THEN <<>> ELSE @,
                           !.responses = IF st.name = "responses" THEN <<>> ELSE @,
                           !.links = IF st.name = "link_metadata" THEN <<>> ELSE @]

RECURSIVE exec_script(_, _)
exec_script(c, script) ==
    IF script = <<>> THEN c
    ELSE exec_script(exec_statement(c, Head(script)), Tail(script))

(* The tokenizer create_schema gives the two indexes it creates: its       *)
(* second parameter, 'unicode61' when it is omitted.                       *)
schema_tokenizer(tokenizer) == tokenizer

(* create_schema: the script of database.py *)
create_schema_script(tokenizer) ==
    << CreateTable("plurks"), CreateTable("responses"),
       CreateFts("plurks_fts", schema_tokenizer(tokenizer)),
       CreateFts("responses_fts", schema_tokenizer(tokenizer)),
       CreateTrigger("plurks_ai"), CreateTrigger("plurks_ad"), CreateTrigger("plurks_au"),
       CreateTrigger("responses_ai"), CreateTrigger("responses_ad"),
       CreateTrigger("responses_au") >>

create_schema(c, tokenizer) == exec_script(c, create_schema_script(tokenizer))

(* create_link_metadata_table: the script of links_cmd.py *)
link_metadata_script(tokenizer) ==
    << CreateFts("link_metadata_fts", tokenizer),
       CreateTrigger("link_metadata_ai"), CreateTrigger("link_metadata_ad"),
       CreateTrigger("link_metadata_au") >>

create_link_metadata_table(c) ==
    exec_script(c, <<CreateTable("link_metadata")>> \o link_metadata_script("unicode61"))

----------------------------------------------------------------------------
(* The index and the triggers that keep it in step with its table *)

fts_insert(c, f, rowid, text) ==
    [c EXCEPT !.idx[f] = @ (+) SetToBag({<<rowid, text>>})]

(* INSERT INTO f(f, rowid, ...) VALUES ('delete', ...): the entry written  *)
(* from these values is taken out of the index                             *)
fts_delete(c, f, rowid, text) ==
    [c EXCEPT !.idx[f] = @ (-) SetToBag({<<rowid, text>>})]

trigger_ai(c, t, rowid, text) ==
    IF TriggerOf[t].ai \in c.objs THEN fts_insert(c, FtsOf[t], rowid, text) ELSE c

(* An update trigger that writes the new entry and retracts nothing *)
trigger_au_insert_only(c, t, rowid, oldText, newText) ==
    IF TriggerOf[t].au \in c.objs THEN fts_insert(c, FtsOf[t], rowid, newText) ELSE c

trigger_au(c, t, rowid, oldText, newText) ==
    IF TriggerOf[t].au \in c.objs
    THEN fts_insert(fts_delete(c, FtsOf[t], rowid, oldText), FtsOf[t], rowid, newText)
    ELSE c

LinkText(row) == <<row.og_title, row.og_description, row.og_site_name>>

(* The entries an index has when it holds exactly one entry per row of its *)
(* table, written from the row's current content                           *)
ExpectedIndex(c, t) ==
    CASE t = "plurks" ->
            SetToBag({<<id, c.plurks[id].content_raw>> : id \in DOMAIN c.plurks})
      [] t = "responses" ->
            SetToBag({<<id, c.responses[id].content_raw>> : id \in DOMAIN c.responses})
      [] t = "link_metadata" ->
            SetToBag({<<c.links[u].rowid, LinkText(c.links[u])>> : u \in DOMAIN c.links})

----------------------------------------------------------------------------
(* The archive: what the fragment files of a backup directory can hold *)

PlurkIds == {1, 2}
ResponseIds == {1, 2}
Contents == {"a", "b"}

BaseIdOf(id) == <<Digit(id)>>
OrphanThread == <<Chr.zero>>
PostedOf(id) ==
    Timestamp("rfc", 2025 + ((id - 1) \div 2), IF id % 2 = 1 THEN 6 ELSE 12, 15)

PlurkRecord(id, content) ==
    [id |-> id, base_id |-> BaseIdOf(id), content_raw |-> content, posted |-> PostedOf(id),
     response_count |-> IF content = "a" THEN 0 ELSE 1, qualifier |-> "says"]
ResponseRecord(id, content) ==
    [id |-> id, content_raw |-> content, posted |-> PostedOf(id),
     user |-> [id |-> 7, nick_name |-> "nick", display_name |-> "Nick"]]

PlurkRecords == {PlurkRecord(id, c) : id \in PlurkIds, c \in Contents}
ResponseRecords == {ResponseRecord(id, c) : id \in ResponseIds, c \in Contents}

SeqsUpTo(S, n) == UNION {[1..k -> S] : k \in 0..n}

PlurkStems == {PlurkStem(2025, 6), PlurkStem(2025, 12)}
ResponseStems == {BaseIdOf(id) : id \in PlurkIds} \cup {OrphanThread}

(* The reply with id r answers the post with id r: the file of a thread    *)
(* holds that thread's replies                                             *)
ThreadRecords(stem) == {r \in ResponseRecords : BaseIdOf(r.id) = stem}

(* A fragment file: its name's stem, whether its text has the label and a  *)
(* JSON array after it, and the records of the array                       *)
FileTexts == {"ok", "no_label", "bad_json"}
File(stem, text, records) == [stem |-> stem, text |-> text, records |-> records]

(* parse_plurk_file / parse_response_file: ValueError when the label does  *)
(* not match or json.loads rejects the payload                             *)
parse_plurk_file(file) ==
    IF file.text = "ok" THEN [raised |-> FALSE, records |-> file.records]
    ELSE [raised |-> TRUE, records |-> <<>>]

parse_response_file(file) ==
    IF file.text = "ok"
    THEN [raised |-> FALSE, base_id |-> file.stem, records |-> file.records]
    ELSE [raised |-> TRUE, base_id |-> file.stem, records |-> <<>>]

----------------------------------------------------------------------------
(* import_plurks / import_responses.  st is the connection with the two    *)
(* counters of the call.                                                   *)

PlurkRow(p) ==
    [base_id |-> p.base_id, content_raw |-> p.content_raw, posted |-> p.posted,
     response_count |-> p.response_count, qualifier |-> p.qualifier]
ResponseRow(base_id, r) ==
    [base_id |-> base_id, content_raw |-> r.content_raw, posted |-> r.posted,
     user_id |-> r.user.id, user_nick |-> r.user.nick_name,
     user_display |-> r.user.display_name]

(* A plurks table whose id is no key: a record whose id is taken gets a    *)
(* row of its own                                                          *)
insert_plurk_unkeyed(c, p) ==
    LET key == IF p.id \notin DOMAIN c.plurks THEN p.id
               ELSE 1 + (CHOOSE n \in DOMAIN c.plurks : \A k \in DOMAIN c.plurks : k <= n)
    IN [c |-> trigger_ai([c EXCEPT !.plurks = (key :> PlurkRow(p)) @@ @],
                         "plurks", key, p.content_raw),
        rowcount |-> 1]

(* INSERT OR REPLACE INTO plurks *)
insert_or_replace_plurk(c, p) ==
    [c |-> trigger_ai([c EXCEPT !.plurks = (p.id :> PlurkRow(p)) @@ @],
                      "plurks", p.id, p.content_raw),
     rowcount |-> 1]

(* INSERT OR IGNORE INTO plurks: the row count is 1 when a row was added   *)
insert_or_ignore_plurk(c, p) ==
    IF p.id \in DOMAIN c.plurks THEN [c |-> c, rowcount |-> 0]
    ELSE [c |-> trigger_ai([c EXCEPT !.plurks = (p.id :> PlurkRow(p)) @@ @],
                           "plurks", p.id, p.content_raw),
          rowcount |-> 1]

insert_or_ignore_response(c, base_id, r) ==
    IF r.id \in DOMAIN c.responses THEN [c |-> c, rowcount |-> 0]
    ELSE [c |-> trigger_ai([c EXCEPT !.responses = (r.id :> ResponseRow(base_id, r)) @@ @],
                           "responses", r.id, r.content_raw),
          rowcount |-> 1]

(* Counting every statement that did not fail as an insert *)
count_insert_nonnegative(st, res) ==
    IF res.rowcount >= 0
    THEN [c |-> res.c, new_count |-> st.new_count + 1, skipped_count |-> st.skipped_count]
    ELSE [c |-> res.c, new_count |-> st.new_count, skipped_count |-> st.skipped_count + 1]

count_insert(st, res) ==
    IF res.rowcount = 1
    THEN [c |-> res.c, new_count |-> st.new_count + 1, skipped_count |-> st.skipped_count]
    ELSE [c |-> res.c, new_count |-> st.new_count, skipped_count |-> st.skipped_count + 1]

RECURSIVE import_plurk_records(_, _)
import_plurk_records(st, plurks) ==
    IF plurks = <<>> THEN st
    ELSE import_plurk_records(count_insert(st, insert_or_ignore_plurk(st.c, Head(plurks))),
                              Tail(plurks))

RECURSIVE import_response_records(_, _, _)
import_response_records(st, base_id, responses) ==
    IF responses = <<>> THEN st
    ELSE import_response_records(
             count_insert(st, insert_or_ignore_response(st.c, base_id, Head(responses))),
             base_id, Tail(responses))

(* The whole call over a list of well-formed files *)
RECURSIVE import_plurks_from(_, _)
import_plurks_from(st, plurk_files) ==
    IF plurk_files = <<>> THEN st
    ELSE import_plurks_from(
             import_plurk_records(st, parse_plurk_file(Head(plurk_files)).records),
             Tail(plurk_files))

import_plurks(c, plurk_files) ==
    import_plurks_from([c |-> c, new_count |-> 0, skipped_count |-> 0], plurk_files)

RECURSIVE import_responses_from(_, _)
import_responses_from(st, response_files) ==
    IF response_files = <<>> THEN st
    ELSE LET parsed == parse_response_file(Head(response_files))
         IN import_responses_from(
                import_response_records(st, parsed.base_id, parsed.records),
                Tail(response_files))

import_responses(c, response_files) ==
    import_responses_from([c |-> c, new_count |-> 0, skipped_count |-> 0], response_files)

----------------------------------------------------------------------------
(* The scan planner *)

None == <<>>

(* SELECT MAX(posted) FROM plurks: the greatest stored text, None when no  *)
(* row holds one                                                           *)
max_posted(c) ==
    LET stored == {c.plurks[id].posted : id \in DOMAIN c.plurks}
    IN IF stored = {} THEN [is_null |-> TRUE, value |-> None]
       ELSE [is_null |-> FALSE,
             value |-> CHOOSE ts \in stored :
                 \A other \in stored : LexLeq(TimestampText(other), TimestampText(ts))]

IsLeap(y) == (y % 4 = 0 /\ y % 100 # 0) \/ y % 400 = 0
DaysInMonth(y, m) ==
    IF m = 2 THEN (IF IsLeap(y) THEN 29 ELSE 28)
    ELSE IF m \in {4, 6, 9, 11} THEN 30 ELSE 31

(* current_date - relativedelta(months=n), 0 <= n <= 12 *)
minus_months(d, n) ==
    LET m0 == d.month - n
        y == IF m0 < 1 THEN d.year - 1 ELSE d.year
        m == IF m0 < 1 THEN m0 + 12 ELSE m0
        dim == DaysInMonth(y, m)
    IN Date(y, m, IF d.day > dim THEN dim ELSE d.day)

(* The comparison the wrong way round *)
gap_below(gap_months) == gap_months < GAP_THRESHOLD

gap_never_exceeds(gap_months) == FALSE
gap_exceeds(gap_months) == gap_months > GAP_THRESHOLD

calculate_scan_range(c, current_date) ==
    LET latest_in_db == max_posted(c)
    IN IF latest_in_db.is_null THEN [scan_start |-> None, scan_end |-> None]
       ELSE LET latest_date == parse_date(latest_in_db.value)
                gap_months == (current_date.year - latest_date.year) * 12
                              + (current_date.month - latest_date.month)
            IN [scan_start |->
                    IF gap_exceeds(gap_months) THEN strftime_Ym(latest_date)
                    ELSE strftime_Ym(minus_months(current_date, SCAN_BACK_MONTHS)),
                scan_end |-> strftime_Ym(current_date)]

(* filter_plurk_files: whether the file with this stem is kept *)
in_scan_range(stem, scan_start, scan_end) ==
    \/ scan_start = None
    \/ LET month_key == replace_underscore(stem)
       IN LexLeq(scan_start, month_key) /\ LexLeq(month_key, scan_end)

(* get_base_ids_from_plurks, for one file *)
base_ids_of(records) ==
    {records[i].base_id : i \in {j \in 1..Len(records) : records[j].base_id # <<>>}}

----------------------------------------------------------------------------
(* Link records *)

IMAGE_EXTENSIONS == {".jpg", ".jpeg", ".png", ".gif", ".webp", ".bmp", ".svg"}

(* A URL: the last extension of its path and of its query string, as       *)
(* written                                                                 *)
Url(name, ext, query_ext) == [name |-> name, ext |-> ext, query_ext |-> query_ext]
Urls == {Url("page", "", ""), Url("photo", ".JPG", "")}

lower(ext) ==
    CASE ext = ".JPG" -> ".jpg"
      [] ext = ".PNG" -> ".png"
      [] ext = ".Gif" -> ".gif"
      [] OTHER -> ext

(* The characters of the pieces URLs are written from *)
Codes(s) ==
    CASE s = "" -> <<>>
      [] s = "page" -> <<112, 97, 103, 101>>
      [] s = "photo" -> <<112, 104, 111, 116, 111>>
      [] s = "pagejpg" -> <<112, 97, 103, 101, 106, 112, 103>>
      [] s = ".jpg" -> <<46, 106, 112, 103>>
      [] s = ".JPG" -> <<46, 74, 80, 71>>
      [] s = ".jpeg" -> <<46, 106, 112, 101, 103>>
      [] s = ".png" -> <<46, 112, 110, 103>>
      [] s = ".PNG" -> <<46, 80, 78, 71>>
      [] s = ".gif" -> <<46, 103, 105, 102>>
      [] s = ".Gif" -> <<46, 71, 105, 102>>
      [] s = ".webp" -> <<46, 119, 101, 98, 112>>
      [] s = ".bmp" -> <<46, 98, 109, 112>>
      [] s = ".svg" -> <<46, 115, 118, 103>>
      [] s = ".html" -> <<46, 104, 116, 109, 108>>

(* The text of a URL after its host: /name.ext or /name.ext?f=x.ext *)
UrlText(url) ==
    <<47>> \o Codes(url.name) \o Codes(url.ext)
    \o (IF url.query_ext = "" THEN <<>> ELSE <<63, 102, 61, 120>> \o Codes(url.query_ext))

(* urlparse(url).path: what stands before the first ? or # *)
RECURSIVE urlparse_path(_)
urlparse_path(text) ==
    IF text = <<>> \/ Head(text) \in {63, 35} THEN <<>>
    ELSE <<Head(text)>> \o urlparse_path(Tail(text))

(* str.lower() and str.endswith() *)
str_unchanged(text) == text
str_lower(text) ==
    [i \in 1..Len(text) |-> IF text[i] >= 65 /\ text[i] <= 90 THEN text[i] + 32 ELSE text[i]]
endswith(text, suffix) ==
    /\ Len(suffix) <= Len(text)
    /\ SubSeq(text, Len(text) - Len(suffix) + 1, Len(text)) = suffix

(* is_image_url: urlparse(url).path.lower() ends with an image extension *)
is_image_url(url) ==
    LET path == str_lower(urlparse_path(UrlText(url)))
    IN \E ext \in IMAGE_EXTENSIONS : endswith(path, Codes(ext))

RECURSIVE SortedSeq(_)
SortedSeq(S) ==
    IF S = {} THEN <<>>
    ELSE LET m == CHOOSE x \in S : \A y \in S : x <= y
         IN <<m>> \o SortedSeq(S \ {m})

Range(q) == {q[i] : i \in 1..Len(q)}

Sources(p, r) == [plurk_ids |-> p, response_ids |-> r]
SourceChoices == {Sources(p, r) : p \in {<<1>>, <<2, 1>>}, r \in {<<>>, <<1>>}}
FewSourceChoices == {Sources(<<1>>, <<>>), Sources(<<2, 1>>, <<1>>)}

NextRowid(c) ==
    IF DOMAIN c.links = {} THEN 1
    ELSE 1 + (CHOOSE n \in {c.links[u].rowid : u \in DOMAIN c.links} :
                 \A u \in DOMAIN c.links : c.links[u].rowid <= n)

(* A merge that appends the new ids to the stored ones *)
merge_sources_appended(old_sources, new_sources) ==
    Sources(old_sources.plurk_ids \o new_sources.plurk_ids,
            old_sources.response_ids \o new_sources.response_ids)

merge_sources(old_sources, new_sources) ==
    Sources(SortedSeq(Range(old_sources.plurk_ids) \cup Range(new_sources.plurk_ids)),
            SortedSeq(Range(old_sources.response_ids) \cup Range(new_sources.response_ids)))

(* An upsert that writes a stored URL's row anew with the merged sources *)
upsert_link_rewrite(c, url, new_sources) ==
    LET fresh == [rowid |-> NextRowid(c), og_title |-> NULL, og_description |-> NULL,
                  og_site_name |-> NULL, sources |-> new_sources,
                  status |-> IF is_image_url(url) THEN "image" ELSE "pending",
                  fetched_at |-> NULL]
    IN IF url \notin DOMAIN c.links
       THEN [c |-> trigger_ai([c EXCEPT !.links = (url :> fresh) @@ @],
                              "link_metadata", fresh.rowid, LinkText(fresh)),
             inserted |-> TRUE]
       ELSE LET old == c.links[url]
                new == [fresh EXCEPT !.rowid = old.rowid,
                                     !.sources = merge_sources(old.sources, new_sources)]
            IN [c |-> trigger_au([c EXCEPT !.links[url] = new],
                                 "link_metadata", old.rowid, LinkText(old), LinkText(new)),
                inserted |-> FALSE]

(* upsert_link: the connection after the call and the value returned *)
upsert_link(c, url, new_sources) ==
    IF url \notin DOMAIN c.links
    THEN LET row == [rowid |-> NextRowid(c), og_title |-> NULL, og_description |-> NULL,
                     og_site_name |-> NULL, sources |-> new_sources,
                     status |-> IF is_image_url(url) THEN "image" ELSE "pending",
                     fetched_at |-> NULL]
         IN [c |-> trigger_ai([c EXCEPT !.links = (url :> row) @@ @],
                              "link_metadata", row.rowid, LinkText(row)),
             inserted |-> TRUE]
    ELSE LET old == c.links[url]
             new == [old EXCEPT !.sources = merge_sources(old.sources, new_sources)]
         IN [c |-> trigger_au([c EXCEPT !.links[url] = new],
                              "link_metadata", old.rowid, LinkText(old), LinkText(new)),
             inserted |-> FALSE]

OGResult(url, status, title, description, site_name) ==
    [url |-> url, status |-> status, title |-> title, description |-> description,
     site_name |-> site_name]

(* What a fetch of url may return *)
FetchOutcomes(url) ==
    {OGResult(url, "success", "T", "D", NULL), OGResult(url, "failed", NULL, NULL, NULL)}

(* An update written as INSERT OR REPLACE: the row is made anew *)
replace_og_metadata(c, result) ==
    LET row == [rowid |-> NextRowid(c), og_title |-> result.title,
                og_description |-> result.description, og_site_name |-> result.site_name,
                sources |-> Sources(<<>>, <<>>), status |-> result.status,
                fetched_at |-> "now"]
    IN [c EXCEPT !.links = (result.url :> row) @@ @]

(* update_og_metadata: UPDATE link_metadata ... WHERE url = result.url *)
update_og_metadata(c, result) ==
    IF result.url \notin DOMAIN c.links THEN c
    ELSE LET old == c.links[result.url]
             new == [old EXCEPT !.og_title = result.title,
                                !.og_description = result.description,
                                !.og_site_name = result.site_name,
                                !.status = result.status,
                                !.fetched_at = "now"]
         IN trigger_au([c EXCEPT !.links[result.url] = new],
                       "link_metadata", old.rowid, LinkText(old), LinkText(new))

(* SELECT url FROM link_metadata WHERE status = 'pending' [LIMIT n], in    *)
(* rowid order                                                             *)
RECURSIVE ByRowid(_, _)
ByRowid(c, urls) ==
    IF urls = {} THEN <<>>
    ELSE LET u == CHOOSE x \in urls : \A y \in urls : c.links[x].rowid <= c.links[y].rowid
         IN <<u>> \o ByRowid(c, urls \ {u})

(* A selection that leaves out the status condition *)
select_any_status(c, limit) ==
    LET rows == ByRowid(c, DOMAIN c.links)
    IN IF limit # 0 /\ limit < Len(rows) THEN SubSeq(rows, 1, limit) ELSE rows

select_pending(c, limit) ==
    LET rows == ByRowid(c, {u \in DOMAIN c.links : c.links[u].status = "pending"})
    IN IF limit # 0 /\ limit < Len(rows) THEN SubSeq(rows, 1, limit) ELSE rows

----------------------------------------------------------------------------
(* The commands.  One command runs at a time (single operator, single      *)
(* writer); run.op names it and run.pc its position.                       *)

Idle == [op |-> "idle"]
NoRebuild ==
    [valid |-> FALSE, interrupted |-> FALSE, tokenizer |-> "none",
     counts |-> [plurks |-> 0, responses |-> 0, links |-> 0],
     fts |-> [objs |-> {}, idx |-> NoFile.idx, tok |-> NoFile.tok]]

Todays == {Date(2026, 2, 2)}

Init ==
    /\ db = NoFile
    /\ conn = NoFile
    /\ run = Idle
    /\ prev = NoRebuild
    /\ ncmd = 0

CanStart == run.op = "idle" /\ ncmd < MaxCommands

(* What the indexes are: which exist, their entries and tokenizers *)
FtsState(c) == [objs |-> c.objs \cap FtsTables, idx |-> c.idx, tok |-> c.tok]

----------------------------------------------------------------------------
(* The import run: main() of database.py, build_database() of init_cmd.py *)

(* An existing file without a plurks table makes calculate_scan_range     *)
(* raise before anything is written: that run changes nothing              *)
ImportBegin(track) ==
    /\ CanStart
    /\ db.exists => "plurks" \in db.objs
    /\ \E today \in Todays :
         LET is_incremental == db.exists
             opened == IF is_incremental THEN db ELSE create_schema(connect(db), "unicode61")
             range == IF is_incremental THEN calculate_scan_range(opened, today)
                      ELSE [scan_start |-> None, scan_end |-> None]
         IN /\ db' = opened
            /\ conn' = opened
            /\ run' = [op |-> "import", pc |-> "plurks", incremental |-> is_incremental,
                       track |-> track,
                       scan_start |-> range.scan_start, scan_end |-> range.scan_end,
                       last_stem |-> <<>>, base_ids |-> {},
                       plurk_new |-> 0, plurk_skipped |-> 0,
                       response_new |-> 0, response_skipped |-> 0,
                       pre |-> Rows(opened), plurk_total |-> 0, response_total |-> 0,
                       differing |-> FALSE]
    /\ prev' = NoRebuild
    /\ ncmd' = ncmd + 1

(* Whether some record of the list was ignored although its content is not *)
(* the stored one (history)                                                *)
IgnoredDiffering(table, records) ==
    \E i \in 1..Len(records) : table[records[i].id].content_raw # records[i].content_raw

(* One iteration of the loop of import_plurks over a well-formed file.     *)
(* The files come sorted by name.                                          *)
ImportPlurkFile(file_len) ==
    /\ run.op = "import" /\ run.pc = "plurks"
    /\ \E stem \in PlurkStems, records \in SeqsUpTo(PlurkRecords, file_len) :
         LET parsed == parse_plurk_file(File(stem, "ok", records))
             st == import_plurk_records(
                       [c |-> conn, new_count |-> run.plurk_new,
                        skipped_count |-> run.plurk_skipped], parsed.records)
         IN /\ LexLess(run.last_stem, stem)
            /\ in_scan_range(stem, run.scan_start, run.scan_end)
            /\ conn' = st.c
            /\ run' = [run EXCEPT !.last_stem = stem,
                                  !.base_ids = @ \cup base_ids_of(parsed.records),
                                  !.plurk_new = st.new_count,
                                  !.plurk_skipped = st.skipped_count,
                                  !.plurk_total =
                                      IF run.track THEN @ + Len(parsed.records) ELSE @,
                                  !.differing =
                                      @ \/ (run.track
                                            /\ IgnoredDiffering(st.c.plurks, records))]
    /\ UNCHANGED <<db, prev, ncmd>>

(* A run that commits between its two import calls *)
ImportPlurksDoneCommitted ==
    /\ run.op = "import" /\ run.pc = "plurks"
    /\ db' = conn
    /\ run' = [run EXCEPT !.pc = "responses", !.last_stem = <<>>]
    /\ UNCHANGED <<conn, prev, ncmd>>

(* import_plurks returns; get_base_ids_from_plurks and                     *)
(* filter_response_files choose the reply files                            *)
ImportPlurksDone ==
    /\ run.op = "import" /\ run.pc = "plurks"
    /\ run' = [run EXCEPT !.pc = "responses", !.last_stem = <<>>]
    /\ UNCHANGED <<db, conn, prev, ncmd>>

ImportResponseFile(file_len) ==
    /\ run.op = "import" /\ run.pc = "responses"
    /\ \E stem \in ResponseStems :
       \E records \in SeqsUpTo(ThreadRecords(stem), file_len) :
         LET parsed == parse_response_file(File(stem, "ok", records))
             st == import_response_records(
                       [c |-> conn, new_count |-> run.response_new,
                        skipped_count |-> run.response_skipped],
                       parsed.base_id, parsed.records)
         IN /\ LexLess(run.last_stem, stem)
            /\ stem \in run.base_ids
            /\ conn' = st.c
            /\ run' = [run EXCEPT !.last_stem = stem,
                                  !.response_new = st.new_count,
                                  !.response_skipped = st.skipped_count,
                                  !.response_total =
                                      IF run.track THEN @ + Len(parsed.records) ELSE @,
                                  !.differing =
                                      @ \/ (run.track
                                            /\ IgnoredDiffering(st.c.responses, records))]
    /\ UNCHANGED <<db, prev, ncmd>>

(* A run that skips the file that does not parse and commits the rest *)
ImportMalformedFileSkipped ==
    /\ run.op = "import" /\ run.pc \in {"plurks", "responses"}
    /\ db' = conn
    /\ run' = [run EXCEPT !.pc = "failed"]
    /\ UNCHANGED <<conn, prev, ncmd>>

(* A file in the list does not parse: ValueError leaves import_plurks or   *)
(* import_responses and main(); the connection is never committed          *)
ImportMalformedFile ==
    /\ run.op = "import" /\ run.pc \in {"plurks", "responses"}
    /\ \E text \in FileTexts \ {"ok"} :
         LET stems == IF run.pc = "plurks"
                      THEN {s \in PlurkStems : in_scan_range(s, run.scan_start, run.scan_end)}
                      ELSE ResponseStems \cap run.base_ids
         IN \E stem \in stems :
              /\ LexLess(run.last_stem, stem)
              /\ parse_plurk_file(File(stem, text, <<>>)).raised
    /\ conn' = db
    /\ run' = [run EXCEPT !.pc = "failed"]
    /\ UNCHANGED <<db, prev, ncmd>>

(* conn.commit() after both imports *)
ImportCommit ==
    /\ run.op = "import" /\ run.pc = "responses"
    /\ db' = conn
    /\ run' = [run EXCEPT !.pc = "done"]
    /\ UNCHANGED <<conn, prev, ncmd>>

ImportExit ==
    /\ run.op = "import" /\ run.pc \in {"done", "failed"}
    /\ run' = Idle
    /\ UNCHANGED <<db, conn, prev, ncmd>>

----------------------------------------------------------------------------
(* rebuild_fts *)

(* Scripts that drop the wrong things *)
drop_script_entity ==
    << DropTrigger("plurks_ai"), DropTrigger("plurks_ad"), DropTrigger("plurks_au"),
       DropTrigger("responses_ai"), DropTrigger("responses_ad"), DropTrigger("responses_au"),
       DropTrigger("link_metadata_ai"), DropTrigger("link_metadata_ad"),
       DropTrigger("link_metadata_au"),
       DropTable("plurks"), DropTable("responses_fts"), DropTable("link_metadata_fts") >>
drop_script_triggers_only ==
    << DropTrigger("plurks_ai"), DropTrigger("plurks_ad"), DropTrigger("plurks_au"),
       DropTrigger("responses_ai"), DropTrigger("responses_ad"), DropTrigger("responses_au"),
       DropTrigger("link_metadata_ai"), DropTrigger("link_metadata_ad"),
       DropTrigger("link_metadata_au"),
       DropTrigger("plurks_ai"), DropTrigger("responses_ai"), DropTrigger("link_metadata_ai") >>

(* The drop script without the link index *)
drop_script_keep_link_fts ==
    << DropTrigger("plurks_ai"), DropTrigger("plurks_ad"), DropTrigger("plurks_au"),
       DropTrigger("responses_ai"), DropTrigger("responses_ad"), DropTrigger("responses_au"),
       DropTrigger("link_metadata_ai"), DropTrigger("link_metadata_ad"),
       DropTrigger("link_metadata_au"),
       DropTable("plurks_fts"), DropTable("responses_fts"), DropTrigger("link_metadata_au") >>

drop_script ==
    << DropTrigger("plurks_ai"), DropTrigger("plurks_ad"), DropTrigger("plurks_au"),
       DropTrigger("responses_ai"), DropTrigger("responses_ad"), DropTrigger("responses_au"),
       DropTrigger("link_metadata_ai"), DropTrigger("link_metadata_ad"),
       DropTrigger("link_metadata_au"),
       DropTable("plurks_fts"), DropTable("responses_fts"), DropTable("link_metadata_fts") >>

rebuild_script(pc, tokenizer) ==
    CASE pc = "drop" -> drop_script
      [] pc = "schema" -> create_schema_script(tokenizer)
      [] pc = "links" -> link_metadata_script(tokenizer)

(* Where rebuild_fts goes after the last statement of a script *)
after_script(pc, c) ==
    CASE pc = "drop" -> "schema"
      [] pc = "schema" -> IF "link_metadata" \in c.objs THEN "links" ELSE "fill"
      [] pc = "links" -> "fill"

(* INSERT INTO f(rowid, ...) SELECT ... FROM t: one entry per row is added *)
(* and the row count is the number of rows                                 *)
repopulate(c, t) ==
    [c |-> [c EXCEPT !.idx[FtsOf[t]] = @ (+) ExpectedIndex(c, t)],
     rowcount |-> CASE t = "plurks" -> Cardinality(DOMAIN c.plurks)
                    [] t = "responses" -> Cardinality(DOMAIN c.responses)
                    [] t = "link_metadata" -> Cardinality(DOMAIN c.links)]

RebuildBegin ==
    /\ CanStart
    /\ db.exists
    /\ \E tokenizer \in Tokenizers :
         run' = [op |-> "rebuild", pc |-> "drop", i |-> 1, tokenizer |-> tokenizer,
                 has_links |-> FALSE,
                 counts |-> [plurks |-> 0, responses |-> 0, links |-> 0],
                 first |-> prev, pre |-> Rows(db), pre_fts |-> FtsState(db)]
    /\ prev' = NoRebuild
    /\ ncmd' = ncmd + 1
    /\ UNCHANGED <<db, conn>>

(* One statement of one of the three scripts: executescript runs it in     *)
(* autocommit mode, so it is committed when it ends                        *)
RebuildStatement ==
    /\ run.op = "rebuild" /\ run.pc \in {"drop", "schema", "links"}
    /\ LET script == rebuild_script(run.pc, run.tokenizer)
           after == exec_statement(conn, script[run.i])
       IN /\ conn' = after
          /\ db' = after
          /\ run' = IF run.i < Len(script) THEN [run EXCEPT !.i = @ + 1]
                    ELSE [run EXCEPT !.i = 1, !.pc = after_script(run.pc, after),
                                     !.has_links = "link_metadata" \in after.objs]
    /\ UNCHANGED <<prev, ncmd>>

(* The three INSERT ... SELECT, in one implicit transaction *)
RebuildRepopulate ==
    /\ run.op = "rebuild" /\ run.pc = "fill"
    /\ LET p == repopulate(conn, "plurks")
           r == repopulate(p.c, "responses")
           l == IF run.has_links THEN repopulate(r.c, "link_metadata")
                ELSE [c |-> r.c, rowcount |-> 0]
       IN /\ conn' = l.c
          /\ run' = [run EXCEPT !.pc = "commit",
                                !.counts = [plurks |-> p.rowcount, responses |-> r.rowcount,
                                            links |-> l.rowcount]]
    /\ UNCHANGED <<db, prev, ncmd>>

RebuildCommit ==
    /\ run.op = "rebuild" /\ run.pc = "commit"
    /\ db' = conn
    /\ run' = [run EXCEPT !.pc = "done"]
    /\ prev' = [valid |-> TRUE, interrupted |-> FALSE, tokenizer |-> run.tokenizer,
                counts |-> run.counts, fts |-> FtsState(conn)]
    /\ UNCHANGED <<conn, ncmd>>

RebuildExit ==
    /\ run.op = "rebuild" /\ run.pc = "done"
    /\ run' = Idle
    /\ UNCHANGED <<db, conn, prev, ncmd>>

----------------------------------------------------------------------------
(* cmd_extract: the table is created, every extracted URL is upserted, and *)
(* the whole is committed                                                  *)

ExtractBegin ==
    /\ CanStart
    /\ LET made == create_link_metadata_table(connect(db))
       IN db' = made /\ conn' = made
    /\ run' = [op |-> "extract", pc |-> "upsert", urls |-> {}]
    /\ prev' = NoRebuild
    /\ ncmd' = ncmd + 1

ExtractUpsert(choices) ==
    /\ run.op = "extract" /\ run.pc = "upsert"
    /\ \E url \in Urls \ run.urls, new_sources \in choices :
         /\ conn' = upsert_link(conn, url, new_sources).c
         /\ run' = [run EXCEPT !.urls = @ \cup {url}]
    /\ UNCHANGED <<db, prev, ncmd>>

ExtractCommit ==
    /\ run.op = "extract" /\ run.pc = "upsert"
    /\ db' = conn
    /\ run' = Idle
    /\ UNCHANGED <<conn, prev, ncmd>>

----------------------------------------------------------------------------
(* cmd_fetch_previews: every pending URL is fetched and its result         *)
(* committed before the next fetch                                         *)

FetchLimits == {0, 1}

FetchBegin ==
    /\ CanStart
    /\ db.exists /\ "link_metadata" \in db.objs
    /\ \E limit \in FetchLimits :
         run' = [op |-> "fetch", pc |-> "loop", limit |-> limit,
                 pending_urls |-> select_pending(db, limit), i |-> 1]
    /\ prev' = NoRebuild
    /\ ncmd' = ncmd + 1
    /\ UNCHANGED <<db, conn>>

FetchOne ==
    /\ run.op = "fetch" /\ run.i <= Len(run.pending_urls)
    /\ \E result \in FetchOutcomes(run.pending_urls[run.i]) :
         LET after == update_og_metadata(conn, result)
         IN conn' = after /\ db' = after
    /\ run' = [run EXCEPT !.i = @ + 1]
    /\ UNCHANGED <<prev, ncmd>>

FetchExit ==
    /\ run.op = "fetch" /\ run.i > Len(run.pending_urls)
    /\ run' = Idle
    /\ UNCHANGED <<db, conn, prev, ncmd>>

----------------------------------------------------------------------------
(* The process is killed: what its connection had not committed is lost *)

Interrupt ==
    /\ run.op # "idle"
    /\ conn' = db
    /\ run' = Idle
    /\ prev' = IF run.op = "rebuild" /\ run.pc # "done"
               THEN [NoRebuild EXCEPT !.interrupted = TRUE, !.fts = run.pre_fts]
               ELSE NoRebuild
    /\ UNCHANGED <<db, ncmd>>

Next ==
    \/ ImportBegin(FALSE) \/ ImportPlurkFile(1) \/ ImportPlurksDone \/ ImportResponseFile(1)
    \/ ImportMalformedFile \/ ImportCommit \/ ImportExit
    \/ RebuildBegin \/ RebuildStatement \/ RebuildRepopulate \/ RebuildCommit \/ RebuildExit
    \/ ExtractBegin \/ ExtractUpsert(FewSourceChoices) \/ ExtractCommit
    \/ FetchBegin \/ FetchOne \/ FetchExit

Spec == Init /\ [][Next]_vars

NextCrash == Next \/ Interrupt

SpecCrash == Init /\ [][NextCrash]_vars

NextImport ==
    \/ ImportBegin(TRUE) \/ ImportPlurkFile(MaxFileLen) \/ ImportPlurksDone
    \/ ImportResponseFile(MaxFileLen)
    \/ ImportMalformedFile \/ ImportCommit \/ ImportExit

SpecImport == Init /\ [][NextImport]_vars

----------------------------------------------------------------------------
(* The scan planner on its own: any store of posts, any current date *)

ScanYearSet == 2025..(2024 + MaxScanYears)
ScanTimestamps ==
    {Timestamp(fmt, y, m, 15) : fmt \in {"iso", "rfc"}, y \in ScanYearSet, m \in 1..12}
ScanDates ==
    {Date(y, m, d) : y \in ScanYearSet, m \in 1..12, d \in {1, 31}} \cap
    {Date(y, m, d) : y \in ScanYearSet, m \in 1..12, d \in 1..31}

ValidDate(d) == d.day <= DaysInMonth(d.year, d.month)

PostedRecord(id, ts) == [PlurkRecord(id, "a") EXCEPT !.posted = ts]

FreshStore == create_schema(connect(NoFile), "unicode61")

InitScan ==
    /\ \E ids \in SUBSET PlurkIds :
         \E posted \in [ids -> ScanTimestamps] :
           LET records == [i \in 1..Cardinality(ids) |->
                              PostedRecord(SortedSeq(ids)[i], posted[SortedSeq(ids)[i]])]
               store == import_plurks(FreshStore, <<File(PlurkStem(2025, 1), "ok", records)>>).c
           IN db = store /\ conn = store
    /\ run = Idle
    /\ prev = NoRebuild
    /\ ncmd = 0

ScanPlan ==
    /\ run.op = "idle"
    /\ \E current_date \in {d \in ScanDates : ValidDate(d)} :
         run' = [op |-> "scan", current_date |-> current_date,
                 range |-> calculate_scan_range(conn, current_date)]
    /\ UNCHANGED <<db, conn, prev, ncmd>>

NextScan == ScanPlan

SpecScan == InitScan /\ [][NextScan]_vars

----------------------------------------------------------------------------
(* The two import calls of a run repeated over the same files *)

PlurkFileLists ==
    {<<>>} \cup
    {<<File(PlurkStem(2025, 6), "ok", first)>> : first \in SeqsUpTo(PlurkRecords, MaxFileLen)}
    \cup
    {<<File(PlurkStem(2025, 6), "ok", first), File(PlurkStem(2025, 12), "ok", second)>> :
        first \in SeqsUpTo(PlurkRecords, MaxFileLen), second \in SeqsUpTo(PlurkRecords, 1)}
ResponseFileLists ==
    {<<>>} \cup
    {<<File(stem, "ok", records)>> :
        stem \in {BaseIdOf(1)}, records \in SeqsUpTo(ThreadRecords(BaseIdOf(1)), MaxFileLen)}

EarlierStores ==
    {FreshStore,
     import_plurks(FreshStore,
                   <<File(PlurkStem(2025, 6), "ok", <<PlurkRecord(1, "a")>>)>>).c,
     import_responses(
         import_plurks(FreshStore,
                       <<File(PlurkStem(2025, 6), "ok", <<PlurkRecord(2, "b")>>)>>).c,
         <<File(BaseIdOf(1), "ok", <<ResponseRecord(1, "b")>>)>>).c}

InitAgain ==
    /\ \E store \in EarlierStores : db = store /\ conn = store
    /\ \E plurk_files \in PlurkFileLists, response_files \in ResponseFileLists :
         run = [op |-> "again", plurk_files |-> plurk_files,
                response_files |-> response_files, n |-> 0, once |-> Rows(NoFile)]
    /\ prev = NoRebuild
    /\ ncmd = 0

ImportAgain ==
    /\ run.op = "again" /\ run.n < MaxCommands
    /\ LET p == import_plurks(conn, run.plurk_files)
           r == import_responses(p.c, run.response_files)
       IN /\ conn' = r.c
          /\ db' = r.c
          /\ run' = [run EXCEPT !.n = @ + 1,
                                !.once = IF run.n = 0 THEN Rows(r.c) ELSE @]
    /\ UNCHANGED <<prev, ncmd>>

NextAgain == ImportAgain

SpecAgain == InitAgain /\ [][NextAgain]_vars

----------------------------------------------------------------------------
(* Properties *)

(* Whether the index of entity table t exists in c and holds exactly one   *)
(* entry per row, written from the row's current content                   *)
IndexComplete(c, t) ==
    /\ FtsOf[t] \in c.objs
    /\ c.idx[FtsOf[t]] = ExpectedIndex(c, t)

RowCount(c, t) ==
    CASE t = "plurks" -> Cardinality(DOMAIN c.plurks)
      [] t = "responses" -> Cardinality(DOMAIN c.responses)
      [] t = "link_metadata" -> Cardinality(DOMAIN c.links)

RebuildRunning == run.op = "rebuild" /\ run.pc # "done"

C2_ReimportIdempotent ==
    (run.op = "again" /\ run.n >= 1) =>
        /\ db.plurks = run.once.plurks
        /\ db.responses = run.once.responses

C2_Witness ==
    /\ run.op = "again" /\ run.n >= 2
    /\ Len(run.plurk_files) = 2 /\ Len(run.response_files) = 1
    /\ Cardinality(DOMAIN db.plurks) = 2 /\ DOMAIN db.responses # {}
    /\ db.plurks = run.once.plurks /\ db.responses = run.once.responses

(* The index entries written for one rowid *)
EntriesOf(c, f, rowid) ==
    LET entries == {e \in BagToSet(c.idx[f]) : e[1] = rowid}
    IN [e \in entries |-> CopiesIn(e, c.idx[f])]

(* C3: a step of an import that processes records never changes a row that *)
(* was already stored before the step (from an earlier run or earlier in   *)
(* the batch), even when the incoming content differs, and adds or changes *)
(* no index entry for it.                                                  *)
C3_ExistingRowKept ==
    [][(run.op = "import" /\ run'.op = "import" /\ run'.pc \in {"plurks", "responses"}) =>
          /\ \A id \in DOMAIN conn.plurks :
                /\ id \in DOMAIN conn'.plurks
                /\ conn'.plurks[id] = conn.plurks[id]
                /\ EntriesOf(conn', "plurks_fts", id) = EntriesOf(conn, "plurks_fts", id)
          /\ \A id \in DOMAIN conn.responses :
                /\ id \in DOMAIN conn'.responses
                /\ conn'.responses[id] = conn.responses[id]
                /\ EntriesOf(conn', "responses_fts", id)
                       = EntriesOf(conn, "responses_fts", id)]_vars

C3_Witness ==
    /\ run.op = "import" /\ run.pc = "responses"
    /\ run.differing
    /\ run.plurk_skipped > 0 /\ run.response_skipped > 0

(* C4: the new count of import_plurks / import_responses is the number of  *)
(* rows the call added, and new + skipped is the number of records of the  *)
(* files processed, so skipped is the number of records found stored.      *)
C4_CountsAreInsertsAndSkips ==
    (run.op = "import" /\ run.track /\ run.pc \in {"plurks", "responses", "done"}) =>
        /\ run.plurk_new = RowCount(conn, "plurks") - Cardinality(DOMAIN run.pre.plurks)
        /\ run.plurk_new + run.plurk_skipped = run.plurk_total
        /\ run.response_new
               = RowCount(conn, "responses") - Cardinality(DOMAIN run.pre.responses)
        /\ run.response_new + run.response_skipped = run.response_total

C4_Witness ==
    /\ run.op = "import" /\ run.track /\ run.pc = "done"
    /\ run.plurk_new > 0 /\ run.plurk_skipped > 0
    /\ run.response_new > 0 /\ run.response_skipped > 0

(* Months counted from year 0, and the YYYY-MM key of such a count *)
MonthNumber(d) == d.year * 12 + (d.month - 1)
MonthKey(n) == FourDigits(n \div 12) \o <<Hyphen>> \o TwoDigits((n % 12) + 1)

C6_ImportRunAtomic ==
    run.op = "import" =>
        /\ run.pc \in {"plurks", "responses", "failed"} => Rows(db) = run.pre
        /\ run.pc = "done" => db = conn
        /\ \A t \in EntityTables \cap db.objs : IndexComplete(db, t)

C6_Witness ==
    /\ run.op = "import" /\ run.pc = "responses"
    /\ run.plurk_new > 0 /\ run.response_new > 0
    /\ Rows(conn) # Rows(db)
    /\ Rows(db) = run.pre

(* C7 as stated: when a file of the run is malformed, the records of the   *)
(* files imported earlier in the run remain committed in the store.        *)
C7_EarlierFilesCommitted ==
    (run.op = "import" /\ run.pc = "failed") =>
        /\ RowCount(db, "plurks") = Cardinality(DOMAIN run.pre.plurks) + run.plurk_new
        /\ RowCount(db, "responses")
               = Cardinality(DOMAIN run.pre.responses) + run.response_new

(* C7: when a file of the run is malformed, the parser raises an error for *)
(* that file, the run ends without committing, and the store holds the     *)
(* rows it held before the run: nothing of the earlier files is kept.      *)
C7_MalformedFileAbortsRun ==
    (run.op = "import" /\ run.pc = "failed") =>
        /\ Rows(db) = run.pre
        /\ conn = db

C7_Witness ==
    /\ run.op = "import" /\ run.pc = "failed"
    /\ run.plurk_new > 0 /\ run.response_new > 0
    /\ Rows(db) = run.pre

C10_InterruptedRebuildAllOrNothing ==
    prev.interrupted =>
        \A t \in EntityTables \cap db.objs :
            RowCount(db, t) > 0 =>
                \/ /\ (FtsOf[t] \in db.objs) = (FtsOf[t] \in prev.fts.objs)
                   /\ db.idx[FtsOf[t]] = prev.fts.idx[FtsOf[t]]
                   /\ db.tok[FtsOf[t]] = prev.fts.tok[FtsOf[t]]
                \/ IndexComplete(db, t)


----------------------------------------------------------------------------
(* upsert_link and update_og_metadata called in any order on a link table *)

LinkUrls ==
    {Url("page", "", ""), Url("photo", ".JPG", ""), Url("page", ".html", ".jpg"),
     Url("photo", ".Gif", ".html"), Url("pagejpg", "", "")}

InitLinks ==
    /\ db = create_link_metadata_table(connect(NoFile))
    /\ conn = db
    /\ run = [op |-> "links", last |-> "none", n |-> 0, url |-> Url("page", "", ""),
              sources |-> Sources(<<>>, <<>>), before |-> <<>>, returned |-> FALSE]
    /\ prev = NoRebuild
    /\ ncmd = 0

LinkUpsert ==
    /\ run.op = "links" /\ run.n < MaxLinkCalls
    /\ \E url \in LinkUrls, new_sources \in SourceChoices :
         LET res == upsert_link(conn, url, new_sources)
         IN /\ conn' = res.c
            /\ run' = [op |-> "links", last |-> "upsert", n |-> run.n + 1, url |-> url,
                       sources |-> new_sources, before |-> conn.links,
                       returned |-> res.inserted]
    /\ UNCHANGED <<db, prev, ncmd>>

LinkFetched ==
    /\ run.op = "links" /\ run.n < MaxLinkCalls
    /\ \E url \in DOMAIN conn.links :
         /\ conn.links[url].status = "pending"
         /\ \E result \in FetchOutcomes(url) :
              /\ conn' = update_og_metadata(conn, result)
              /\ run' = [run EXCEPT !.last = "fetch", !.n = @ + 1, !.url = url,
                                    !.before = conn.links, !.returned = FALSE]
    /\ UNCHANGED <<db, prev, ncmd>>

NextLinks == LinkUpsert \/ LinkFetched

SpecLinks == InitLinks /\ [][NextLinks]_vars

(* C12: upsert_link on a URL that is not stored adds one Link Record with  *)
(* the given reference sets and nothing else, its status being 'image'     *)
(* when the extension of the URL's path, case ignored and query string     *)
(* ignored, is an image extension and 'pending' otherwise; it returns True *)
C12_UpsertNewUrl ==
    (run.op = "links" /\ run.last = "upsert" /\ run.url \notin DOMAIN run.before) =>
        /\ run.returned = TRUE
        /\ DOMAIN conn.links = DOMAIN run.before \cup {run.url}
        /\ \A u \in DOMAIN run.before : conn.links[u] = run.before[u]
        /\ conn.links[run.url].sources = run.sources
        /\ conn.links[run.url].status =
               IF lower(run.url.ext) \in IMAGE_EXTENSIONS THEN "image" ELSE "pending"
        /\ LinkText(conn.links[run.url]) = <<NULL, NULL, NULL>>
        /\ conn.links[run.url].fetched_at = NULL

C12_Witness ==
    /\ run.op = "links" /\ run.last = "upsert" /\ run.returned
    /\ run.url = Url("page", ".html", ".jpg")
    /\ conn.links[run.url].status = "pending"
    /\ \E u \in DOMAIN run.before : u.ext = ".JPG" /\ conn.links[u].status = "image"


(* C13: upsert_link on a stored URL changes nothing but that record's      *)
(* reference sets: its status, title, description, site name and fetch     *)
(* timestamp stay, whatever the status and also after a metadata fetch;    *)
(* no other record changes, none is added, and it returns False.           *)
C13_UpsertStoredUrlKeepsFields ==
    (run.op = "links" /\ run.last = "upsert" /\ run.url \in DOMAIN run.before) =>
        /\ run.returned = FALSE
        /\ DOMAIN conn.links = DOMAIN run.before
        /\ \A u \in DOMAIN run.before \ {run.url} : conn.links[u] = run.before[u]
        /\ [conn.links[run.url] EXCEPT !.sources = run.before[run.url].sources]
               = run.before[run.url]

C13_Witness ==
    /\ run.op = "links" /\ run.last = "upsert" /\ ~run.returned
    /\ run.url \in DOMAIN run.before
    /\ run.before[run.url].status = "success"
    /\ conn.links[run.url].status = "success"
    /\ conn.links[run.url].og_title = "T"
    /\ conn.links[run.url].sources # run.before[run.url].sources


StrictlyAscending(q) == \A i \in 1..(Len(q) - 1) : q[i] < q[i + 1]

(* C14: after upsert_link on a stored URL the stored post ids are the      *)
(* ascending, duplicate-free list of the ids stored before together with   *)
(* the new ones, and likewise the reply ids; no id is lost, and the same   *)
(* upsert once more changes nothing.                                       *)
C14_SourcesAreSortedUnion ==
    (run.op = "links" /\ run.last = "upsert" /\ run.url \in DOMAIN run.before) =>
        LET old == run.before[run.url].sources
            now == conn.links[run.url].sources
        IN /\ StrictlyAscending(now.plurk_ids)
           /\ Range(now.plurk_ids) = Range(old.plurk_ids) \cup Range(run.sources.plurk_ids)
           /\ StrictlyAscending(now.response_ids)
           /\ Range(now.response_ids)
                  = Range(old.response_ids) \cup Range(run.sources.response_ids)
           /\ upsert_link(conn, run.url, run.sources).c = conn

C14_Witness ==
    /\ run.op = "links" /\ run.last = "upsert" /\ run.url \in DOMAIN run.before
    /\ run.before[run.url].sources = Sources(<<2, 1>>, <<>>)
    /\ run.sources = Sources(<<1>>, <<1>>)
    /\ conn.links[run.url].sources = Sources(<<1, 2>>, <<1>>)


----------------------------------------------------------------------------
(* The metadata-fetch pass, cmd_fetch_previews_internal, step by step: the *)
(* fetch returns, the row is updated, the update is committed              *)

FetchUrls ==
    << Url("page", "", ""), Url("pagejpg", "", ""), Url("page", ".html", ".jpg"),
       Url("photo", ".JPG", "") >>

RECURSIVE upsert_all(_, _, _)
upsert_all(c, urls, stored) ==
    IF urls = <<>> THEN c
    ELSE upsert_all(IF Head(urls) \in stored
                    THEN upsert_link(c, Head(urls), Sources(<<1>>, <<>>)).c ELSE c,
                    Tail(urls), stored)

RECURSIVE update_all(_, _, _)
update_all(c, urls, fetched) ==
    IF urls = <<>> THEN c
    ELSE update_all(IF Head(urls) \in fetched
                    THEN update_og_metadata(c, OGResult(Head(urls), "success", "T", "D", NULL))
                    ELSE c,
                    Tail(urls), fetched)

(* Link tables left by earlier extractions and fetches *)
FetchStores ==
    {update_all(upsert_all(create_link_metadata_table(connect(NoFile)), FetchUrls, stored),
                FetchUrls, fetched) :
        stored \in SUBSET Range(FetchUrls),
        fetched \in SUBSET {u \in Range(FetchUrls) : ~is_image_url(u)}}

(* The url_filter of a pass: None from the fetch command, the URLs of the  *)
(* extraction from extract --fetch-previews                                *)
UrlFilters == {None, <<Url("page", "", ""), Url("photo", ".JPG", "")>>, <<Url("pagejpg", "", "")>>}

(* SELECT url ... WHERE status = 'pending' AND url IN (url_filter) *)
select_filtered(c, url_filter) ==
    ByRowid(c, {u \in DOMAIN c.links \cap Range(url_filter) : c.links[u].status = "pending"})

InitFetch ==
    /\ db \in FetchStores
    /\ conn = db
    /\ run = Idle
    /\ prev = NoRebuild
    /\ ncmd = 0

(* The fetch command takes --limit; extract --fetch-previews has no limit  *)
PassBegin ==
    /\ run.op = "idle" /\ ncmd < MaxPasses
    /\ \E limit \in 0..MaxLimit, url_filter \in UrlFilters :
         LET pending_urls == IF url_filter # <<>> THEN select_filtered(conn, url_filter)
                             ELSE select_pending(conn, limit)
         IN /\ url_filter # None => limit = 0
            /\ run' = [op |-> "pass", pc |-> IF pending_urls = <<>> THEN "end" ELSE "loop",
                       limit |-> limit, url_filter |-> url_filter,
                       pending_urls |-> pending_urls, i |-> 1,
                       start |-> conn.links, results |-> <<>>]
    /\ ncmd' = ncmd + 1
    /\ UNCHANGED <<db, conn, prev>>

(* fetcher.fetch(url) returns *)
PassFetch ==
    /\ run.op = "pass" /\ run.pc = "loop"
    /\ \E result \in FetchOutcomes(run.pending_urls[run.i]) :
         run' = [run EXCEPT !.pc = "got", !.results = Append(@, result)]
    /\ UNCHANGED <<db, conn, prev, ncmd>>

PassUpdate ==
    /\ run.op = "pass" /\ run.pc = "got"
    /\ conn' = update_og_metadata(conn, run.results[Len(run.results)])
    /\ run' = [run EXCEPT !.pc = "updated"]
    /\ UNCHANGED <<db, prev, ncmd>>

(* A pass that commits once, after its last URL *)
PassCommitAtEnd ==
    /\ run.op = "pass" /\ run.pc = "updated"
    /\ db' = IF run.i < Len(run.pending_urls) THEN db ELSE conn
    /\ run' = [run EXCEPT !.i = @ + 1,
                          !.pc = IF run.i < Len(run.pending_urls) THEN "loop" ELSE "end"]
    /\ UNCHANGED <<conn, prev, ncmd>>

PassCommit ==
    /\ run.op = "pass" /\ run.pc = "updated"
    /\ db' = conn
    /\ run' = [run EXCEPT !.i = @ + 1,
                          !.pc = IF run.i < Len(run.pending_urls) THEN "loop" ELSE "end"]
    /\ UNCHANGED <<conn, prev, ncmd>>

(* The process stops during the loop *)
PassInterrupt ==
    /\ run.op = "pass" /\ run.pc \in {"loop", "got", "updated"}
    /\ conn' = db
    /\ run' = [run EXCEPT !.pc = "stopped"]
    /\ UNCHANGED <<db, prev, ncmd>>

PassExit ==
    /\ run.op = "pass" /\ run.pc \in {"end", "stopped"}
    /\ run' = Idle
    /\ UNCHANGED <<db, conn, prev, ncmd>>

NextFetch ==
    PassBegin \/ PassFetch \/ PassUpdate \/ PassCommit \/ PassInterrupt \/ PassExit

SpecFetch == InitFetch /\ [][NextFetch]_vars

ResultStored(c, result) ==
    /\ result.url \in DOMAIN c.links
    /\ c.links[result.url].status = result.status
    /\ LinkText(c.links[result.url]) = <<result.title, result.description, result.site_name>>
    /\ c.links[result.url].fetched_at # NULL

(* C16: in a metadata-fetch pass every result is committed before the next *)
(* fetch starts; so wherever the process stops, the committed store holds  *)
(* the result of every fetch that returned, but possibly the last one.     *)
C16_ResultsCommittedOneByOne ==
    run.op = "pass" =>
        /\ \A j \in 1..(Len(run.results) - 1) : ResultStored(db, run.results[j])
        /\ run.pc \in {"loop", "end"} =>
              \A j \in 1..Len(run.results) : ResultStored(db, run.results[j])

C16_Witness ==
    /\ run.op = "pass" /\ run.pc = "stopped"
    /\ Len(run.results) = 2
    /\ ResultStored(db, run.results[1])
    /\ run.results[2].status = "success"
    /\ db.links[run.results[2].url].status = "pending"


----------------------------------------------------------------------------
(* OGFetcher.fetch and _fetch_once, used inside the fetcher's context *)

Whitespace == {32, 9, 10, 13}

RECURSIVE lstrip(_)
lstrip(text) ==
    IF text # <<>> /\ Head(text) \in Whitespace THEN lstrip(Tail(text)) ELSE text
RECURSIVE rstrip(_)
rstrip(text) ==
    IF text # <<>> /\ text[Len(text)] \in Whitespace
    THEN rstrip(SubSeq(text, 1, Len(text) - 1)) ELSE text
strip_nothing(text) == text
strip(text) == rstrip(lstrip(text))

startswith(text, prefix) ==
    /\ Len(prefix) <= Len(text)
    /\ SubSeq(text, 1, Len(prefix)) = prefix

(* Content-Type values: text/html, image/png, IMAGE/GIF and a missing one *)
TextHtml == <<116, 101, 120, 116, 47, 104, 116, 109, 108>>
ImagePng == <<105, 109, 97, 103, 101, 47, 112, 110, 103>>
ImageGifUpper == <<73, 77, 65, 71, 69, 47, 71, 73, 70>>
ContentTypes == {None, TextHtml, ImagePng, ImageGifUpper}

(* is_image_content_type: a value that is there and, lower-cased, starts   *)
(* with image/                                                             *)
is_image_content_type(content_type) ==
    /\ content_type # None
    /\ startswith(str_lower(content_type), <<105, 109, 97, 103, 101, 47>>)

(* What one page load gives: the response of page.goto (None for some      *)
(* navigations), the og: properties with a non-empty content, and          *)
(* document.title                                                          *)
Responses ==
    {[present |-> FALSE, content_type |-> None]}
    \cup {[present |-> TRUE, content_type |-> ct] : ct \in ContentTypes}
OgData ==
    [title : {None, <<84>>}, description : {None, <<68>>}, site_name : {None, <<83>>},
     image : BOOLEAN]
PageTitles == {<<>>, <<32>>, <<80>>, <<32, 80, 10>>}
Loads == [response : Responses, og : OgData, title : PageTitles]

(* not og_data: the dictionary has no key *)
og_is_empty(og) ==
    og.title = None /\ og.description = None /\ og.site_name = None /\ ~og.image

(* _fetch_once on a page that loaded *)
fetch_once(url, load) ==
    IF load.response.present /\ is_image_content_type(load.response.content_type)
    THEN OGResult(url, "image", None, None, None)
    ELSE LET page_title == strip(load.title)
         IN IF og_is_empty(load.og) /\ page_title = <<>>
            THEN OGResult(url, "no_og", None, None, None)
            ELSE OGResult(url, "success",
                          IF load.og.title # None THEN load.og.title
                          ELSE IF page_title # <<>> THEN page_title ELSE None,
                          load.og.description, load.og.site_name)

(* What one attempt does: the page loads, or _fetch_once raises.  A load   *)
(* that exceeds the deadline raises Playwright's TimeoutError, whose text  *)
(* is "Timeout ...ms exceeded"; the text of another error names the error  *)
(* and the URL, and may hold the word timeout as well.                     *)
NoLoad == [response |-> [present |-> FALSE, content_type |-> None],
           og |-> [title |-> None, description |-> None, site_name |-> None,
                   image |-> FALSE],
           title |-> <<>>]
AttemptOutcomes ==
    {[kind |-> "loaded", mentions_timeout |-> FALSE, load |-> l] : l \in Loads}
    \cup {[kind |-> "timeout", mentions_timeout |-> TRUE, load |-> NoLoad],
          [kind |-> "other", mentions_timeout |-> FALSE, load |-> NoLoad],
          [kind |-> "other", mentions_timeout |-> TRUE, load |-> NoLoad]}

(* except Exception: every error an attempt raises is one *)
catches_timeout_only(outcome) == outcome.kind = "timeout"
catches(outcome) == outcome.kind \in {"timeout", "other"}

InitFetcher ==
    /\ db = NoFile
    /\ conn = NoFile
    /\ \E url \in {Url("page", "", ""), Url("photo", ".JPG", "")}, retries \in 0..MaxRetries :
         run = [op |-> "fetch_url", pc |-> "loop", url |-> url, retries |-> retries,
                attempt |-> 0, outcomes |-> <<>>,
                result |-> OGResult(url, "none", None, None, None)]
    /\ prev = NoRebuild
    /\ ncmd = 0

(* One pass of the loop of fetch *)
FetchAttempt ==
    /\ run.op = "fetch_url" /\ run.pc = "loop" /\ run.attempt < run.retries
    /\ \E outcome \in AttemptOutcomes :
         LET tried == [run EXCEPT !.attempt = @ + 1, !.outcomes = Append(@, outcome)]
         IN run' =
              IF outcome.kind = "loaded"
              THEN [tried EXCEPT !.pc = "returned",
                                 !.result = fetch_once(run.url, outcome.load)]
              ELSE IF ~catches(outcome) THEN [tried EXCEPT !.pc = "raised"]
              ELSE IF outcome.mentions_timeout
              THEN [tried EXCEPT !.pc = "returned",
                                 !.result = OGResult(run.url, "timeout", None, None, None)]
              ELSE tried
    /\ UNCHANGED <<db, conn, prev, ncmd>>

(* The loop has ended without a return *)
FetchGiveUp ==
    /\ run.op = "fetch_url" /\ run.pc = "loop" /\ run.attempt >= run.retries
    /\ run' = [run EXCEPT !.pc = "returned",
                          !.result = OGResult(run.url, "failed", None, None, None)]
    /\ UNCHANGED <<db, conn, prev, ncmd>>

NextFetcher == FetchAttempt \/ FetchGiveUp

SpecFetcher == InitFetcher /\ [][NextFetcher]_vars


(* Helpers of the fetcher properties *)
LastOutcome == run.outcomes[Len(run.outcomes)]
FetchReturned == run.op = "fetch_url" /\ run.pc = "returned"
PageStatuses == {"success", "no_og", "image"}

(* C17: fetch makes its attempts one after another; it returns at the      *)
(* first attempt that loads the page; at the first attempt that fails with *)
(* a timeout it returns status timeout without a further attempt; after    *)
(* any other error it retries; it returns failed only after as many        *)
(* attempts as the configured retry count have all failed; it never makes  *)
(* more attempts than that count.                                          *)
C17_FetchAttempts ==
    run.op = "fetch_url" =>
      LET n == Len(run.outcomes)
      IN /\ n <= run.retries
         /\ n = run.attempt
         /\ \A i \in 1..(n - 1) : run.outcomes[i].kind = "other"
         /\ run.pc = "loop" => \A i \in 1..n : run.outcomes[i].kind = "other"
         /\ FetchReturned =>
              /\ run.result.status = "timeout" <=> (n > 0 /\ LastOutcome.kind = "timeout")
              /\ run.result.status = "failed" <=>
                   (n = run.retries /\ \A i \in 1..n : run.outcomes[i].kind = "other")
              /\ run.result.status \in PageStatuses <=> (n > 0 /\ LastOutcome.kind = "loaded")

(* C18: for every URL and every sequence of attempt outcomes, a retry      *)
(* count of 0 included, fetch returns a result whose status is one of      *)
(* success, no_og, image, timeout, failed, and raises no exception.        *)
C18_FetchNeverRaises ==
    run.op = "fetch_url" =>
      /\ run.pc # "raised"
      /\ FetchReturned =>
           run.result.status \in {"success", "no_og", "image", "timeout", "failed"}
      /\ run.pc = "loop" => ENABLED NextFetcher

C18_Witness ==
    /\ FetchReturned
    /\ run.retries = 0
    /\ run.result.status = "failed"

(* The text without the white space at its two ends *)
IsStripOf(stripped, text) ==
    \E i \in 1..Len(text), j \in 1..Len(text) :
        /\ i <= j
        /\ stripped = SubSeq(text, i, j)
        /\ text[i] \notin Whitespace /\ text[j] \notin Whitespace
        /\ \A k \in 1..Len(text) : (k < i \/ k > j) => text[k] \in Whitespace
Blank(text) == \A k \in 1..Len(text) : text[k] \in Whitespace

(* C19: a page that loaded is classified image whenever the content type   *)
(* of the response is an image type, whatever title or metadata it has;    *)
(* otherwise no_og when it has no structured metadata and its title is     *)
(* empty or white space only; otherwise success, with the structured title *)
(* if there is one and else the page title without its surrounding white   *)
(* space (no title when the page title is blank too).                      *)
C19_PageClassification ==
    (FetchReturned /\ run.attempt > 0 /\ LastOutcome.kind = "loaded") =>
      LET load == LastOutcome.load
          result == run.result
          image_type == /\ load.response.present
                        /\ load.response.content_type \in {ImagePng, ImageGifUpper}
          no_metadata == /\ load.og.title = None /\ load.og.description = None
                         /\ load.og.site_name = None /\ ~load.og.image
      IN IF image_type THEN result.status = "image"
         ELSE IF no_metadata /\ Blank(load.title) THEN result.status = "no_og"
         ELSE /\ result.status = "success"
              /\ IF load.og.title # None THEN result.title = load.og.title
                 ELSE IF ~Blank(load.title) THEN IsStripOf(result.title, load.title)
                 ELSE result.title = None
              /\ result.description = load.og.description
              /\ result.site_name = load.og.site_name

C19_Witness ==
    /\ FetchReturned /\ run.attempt > 0 /\ LastOutcome.kind = "loaded"
    /\ run.result.status = "success"
    /\ LastOutcome.load.og.title = None
    /\ LastOutcome.load.title = <<32, 80, 10>>
    /\ run.result.title = <<80>>


----------------------------------------------------------------------------
(* SearchDB.search: paginated search over a store that imports, link       *)
(* extraction and metadata fetches have filled                             *)

RESULTS_PER_PAGE == 50

(* str.split(): the maximal runs of characters that are not white space *)
RECURSIVE word_len(_)
word_len(text) ==
    IF text = <<>> \/ Head(text) \in Whitespace THEN 0 ELSE 1 + word_len(Tail(text))
RECURSIVE split(_)
split(text) ==
    LET rest == lstrip(text)
    IN IF rest = <<>> THEN <<>>
       ELSE <<SubSeq(rest, 1, word_len(rest))>>
            \o split(SubSeq(rest, word_len(rest) + 1, Len(rest)))

(* _build_fts_query: the terms of the query, each of them quoted and given *)
(* the prefix wildcard; no term gives the empty MATCH expression           *)
_build_fts_query(query) == split(strip(query))

(* _build_like_pattern: the stripped query, its %, _ and \ escaped, between *)
(* two % wildcards: the text to find, literally                             *)
_build_like_pattern(query) == strip(query)

(* The characters of a stored text *)
TextOf(value) ==
    CASE value = "a" -> <<97>>
      [] value = "b" -> <<98>>

contains(text, part) ==
    \E i \in 0..(Len(text) - Len(part)) : SubSeq(text, i + 1, i + Len(part)) = part

(* column MATCH expression: every term is the prefix of a token of one of  *)
(* the columns; the stored texts have one token each                       *)
fts_match(terms, columns) ==
    \A t \in 1..Len(terms) :
        \E k \in 1..Len(columns) :
            /\ columns[k] # NULL
            /\ startswith(str_lower(TextOf(columns[k])), str_lower(terms[t]))

(* column LIKE pattern ESCAPE '\': never true of NULL, and case-blind *)
like_match(pattern, value) ==
    /\ value # NULL
    /\ contains(str_lower(TextOf(value)), str_lower(pattern))

(* SELECT COUNT of the index entries WHERE <index> MATCH ? *)
fts_count(c, f, terms) ==
    LET hits == {e \in BagToSet(c.idx[f]) :
                    fts_match(terms, IF f = "link_metadata_fts" THEN e[2] ELSE <<e[2]>>)}
    IN BagCardinality([e \in hits |-> CopiesIn(e, c.idx[f])])

(* The ids of the rows that the index entries matching the terms belong to *)
fts_ids(c, f, terms, ids) ==
    {id \in ids : \E e \in BagToSet(c.idx[f]) :
        /\ e[1] = id
        /\ fts_match(terms, IF f = "link_metadata_fts" THEN e[2] ELSE <<e[2]>>)}

(* ORDER BY posted DESC over pairs <<posted text, row>> *)
(* (the rows of a table here have posted texts that differ, so that the     *)
(* order is the only one the statement can give)                           *)
by_posted_desc(keyed) ==
    LET placed == {<<Cardinality({y \in keyed : LexLess(x[1], y[1])}) + 1, x[2]>> :
                      x \in keyed}
    IN [k \in 1..Cardinality(keyed) |-> (CHOOSE p \in placed : p[1] = k)[2]]

(* ORDER BY rowid DESC over pairs <<rowid, row>> *)
by_rowid_desc(keyed) ==
    LET placed == {<<Cardinality({y \in keyed : y[1] > x[1]}) + 1, x[2]>> : x \in keyed}
    IN [k \in 1..Cardinality(keyed) |-> (CHOOSE p \in placed : p[1] = k)[2]]

limit_one_more(rows, offset) ==
    LET first == IF offset < 0 THEN 0 ELSE offset
        last == IF first + RESULTS_PER_PAGE + 1 < Len(rows) THEN first + RESULTS_PER_PAGE + 1
                ELSE Len(rows)
    IN SubSeq(rows, first + 1, last)
(* LIMIT RESULTS_PER_PAGE OFFSET offset; a negative offset counts as 0 *)
limit_offset(rows, offset) ==
    LET first == IF offset < 0 THEN 0 ELSE offset
        last == IF first + RESULTS_PER_PAGE < Len(rows) THEN first + RESULTS_PER_PAGE
                ELSE Len(rows)
    IN SubSeq(rows, first + 1, last)

(* _rows_to_content_dicts *)
NoPosted == [fmt |-> "none", year |-> 0, month |-> 0, day |-> 0]
ContentDict(type, id, row) ==
    LET posted == IF row.posted = NoPosted THEN None ELSE TimestampText(row.posted)
    IN <<posted, [type |-> type, id |-> id, base_id |-> row.base_id,
                  content_raw |-> row.content_raw, posted |-> posted]>>
LinkDict(url, row) ==
    <<row.rowid, [type |-> "link", url |-> url, og_title |-> row.og_title,
                  og_description |-> row.og_description,
                  og_site_name |-> row.og_site_name, sources |-> row.sources,
                  status |-> row.status]>>

(* results.sort(key=posted or "", reverse=True): stable *)
results_as_collected(results) == results
(* an element goes after those with a greater key and after those with    *)
(* the same key that stood before it                                       *)
sort_posted_desc(results) ==
    LET place(i) ==
            Cardinality({j \in 1..Len(results) :
                            \/ LexLess(results[i].posted, results[j].posted)
                            \/ j < i /\ results[j].posted = results[i].posted}) + 1
        placed == {<<place(i), i>> : i \in 1..Len(results)}
    IN [k \in 1..Len(results) |-> results[(CHOOSE p \in placed : p[1] = k)[2]]]

(* math.ceil(total / RESULTS_PER_PAGE) for a count *)
ceil_div(total, size) == (total + size - 1) \div size
total_pages(total) ==
    IF ceil_div(total, RESULTS_PER_PAGE) > 1 THEN ceil_div(total, RESULTS_PER_PAGE) ELSE 1

Response(results, total, page, error) ==
    [raised |-> FALSE, results |-> results, total |-> total, page |-> page,
     pages |-> total_pages(total), error |-> error]
Raised(page) ==
    [raised |-> TRUE, results |-> <<>>, total |-> 0, page |-> page, pages |-> 0,
     error |-> "fts5: syntax error"]

(* The rows of one content table that the query selects, and their count *)
content_part(c, t, type, query, mode, page) ==
    LET table == IF t = "plurks" THEN c.plurks ELSE c.responses
        terms == _build_fts_query(query)
        pattern == _build_like_pattern(query)
        ids == IF mode = "fts" THEN fts_ids(c, FtsOf[t], terms, DOMAIN table)
               ELSE {id \in DOMAIN table : like_match(pattern, table[id].content_raw)}
        rows == by_posted_desc({ContentDict(type, id, table[id]) : id \in ids})
    IN [rows |-> limit_offset(rows, page * RESULTS_PER_PAGE),
        count |-> IF mode = "fts" THEN fts_count(c, FtsOf[t], terms)
                  ELSE Cardinality(ids)]

NoPart == [rows |-> <<>>, count |-> 0]

_search_content(c, query, search_type, mode, page) ==
    IF mode = "fts" /\ _build_fts_query(query) = <<>> THEN Raised(page)
    ELSE LET posts == IF search_type \in {"all", "plurks"}
                      THEN content_part(c, "plurks", "plurk", query, mode, page)
                      ELSE NoPart
             replies == IF search_type \in {"all", "responses"}
                        THEN content_part(c, "responses", "response", query, mode, page)
                        ELSE NoPart
         IN Response(sort_posted_desc(posts.rows \o replies.rows),
                     posts.count + replies.count, page, "none")

_search_links(c, query, mode, page) ==
    IF "link_metadata" \notin c.objs
    THEN Response(<<>>, 0, page, "Link search not available")
    ELSE IF mode = "fts" /\ "link_metadata_fts" \notin c.objs
    THEN Response(<<>>, 0, page, "FTS index not available for links")
    ELSE IF mode = "fts" /\ _build_fts_query(query) = <<>> THEN Raised(page)
    ELSE LET terms == _build_fts_query(query)
             pattern == _build_like_pattern(query)
             rowids == {c.links[u].rowid : u \in DOMAIN c.links}
             urls == IF mode = "fts"
                     THEN {u \in DOMAIN c.links :
                             c.links[u].rowid
                                 \in fts_ids(c, "link_metadata_fts", terms, rowids)}
                     ELSE {u \in DOMAIN c.links :
                             \/ contains(str_lower(UrlText(u)), str_lower(pattern))
                             \/ like_match(pattern, c.links[u].og_title)
                             \/ like_match(pattern, c.links[u].og_description)
                             \/ like_match(pattern, c.links[u].og_site_name)}
             rows == by_rowid_desc({LinkDict(u, c.links[u]) : u \in urls})
         IN Response(limit_offset(rows, page * RESULTS_PER_PAGE),
                     IF mode = "fts" THEN fts_count(c, "link_metadata_fts", terms)
                     ELSE Cardinality(urls),
                     page, "none")

search(c, query, search_type, mode, page) ==
    IF search_type = "links" THEN _search_links(c, query, mode, page)
    ELSE _search_content(c, query, search_type, mode, page)


(* Stores to search: each table holds n rows with the text a and one row   *)
(* with the text b, n being nothing, a full page, or more than a page; the *)
(* reply with id 1 was imported from a record without a posted value; the  *)
(* indexes are those the triggers have kept.                               *)
SearchSizes == {0, RESULTS_PER_PAGE, RESULTS_PER_PAGE + MaxOver}
SearchText(id, n) == IF id <= n THEN "a" ELSE "b"
LinkNames == <<"page", "photo", "pagejpg">>
QueryExts == <<"", ".jpg", ".jpeg", ".png", ".gif", ".webp", ".bmp", ".svg", ".html",
               ".JPG", ".PNG", ".Gif">>
SearchUrl(i) ==
    Url(LinkNames[(i % 3) + 1], IF (i \div 3) % 2 = 0 THEN "" ELSE ".html",
        QueryExts[(i \div 6) + 1])
SearchLink(i, n) ==
    [rowid |-> i, og_title |-> SearchText(i, n), og_description |-> NULL,
     og_site_name |-> NULL, sources |-> Sources(<<1>>, <<>>), status |-> "success",
     fetched_at |-> "now"]
SearchStore(np, nr, with_links) ==
    LET rows == [FreshStore EXCEPT
                   !.plurks = [id \in 1..(np + 1) |->
                                 PlurkRow(PlurkRecord(id, SearchText(id, np)))],
                   !.responses = [id \in 1..(nr + 1) |->
                                    LET row == ResponseRow(BaseIdOf(1),
                                                 ResponseRecord(id, SearchText(id, nr)))
                                    IN IF id = 1 THEN [row EXCEPT !.posted = NoPosted]
                                       ELSE row]]
        linked == IF with_links
                  THEN [create_link_metadata_table(rows) EXCEPT
                          !.links = [u \in {SearchUrl(i) : i \in 1..(np + 1)} |->
                                       SearchLink(CHOOSE i \in 1..(np + 1) : SearchUrl(i) = u,
                                                  np)]]
                  ELSE rows
    IN [linked EXCEPT
          !.idx = [f \in FtsTables |->
                     CASE f = "plurks_fts" -> ExpectedIndex(linked, "plurks")
                       [] f = "responses_fts" -> ExpectedIndex(linked, "responses")
                       [] f = "link_metadata_fts" -> ExpectedIndex(linked, "link_metadata")]]

(* A query with a capital and a trailing blank, one letter, a blank, and a *)
(* letter no text holds                                                    *)
Queries == {<<65, 32>>, <<98>>, <<32>>, <<122>>}
SearchTypes == {"all", "plurks", "responses", "links"}
Modes == {"fts", "like"}

InitSearch ==
    /\ \E np \in SearchSizes, nr \in SearchSizes, with_links \in BOOLEAN :
         db = SearchStore(np, nr, with_links)
    /\ conn = db
    /\ run = Idle
    /\ prev = NoRebuild
    /\ ncmd = 0

(* GET /api/search?q=..&type=..&mode=..&page=..: the server takes one      *)
(* request at a time                                                       *)
Search ==
    /\ run = Idle
    /\ \E query \in Queries, search_type \in SearchTypes, mode \in Modes, page \in 0..MaxPage :
         run' = [op |-> "search", query |-> query, search_type |-> search_type,
                 mode |-> mode, page |-> page,
                 response |-> search(db, query, search_type, mode, page)]
    /\ UNCHANGED <<db, conn, prev, ncmd>>

(* The handler has sent the response *)
SendJson ==
    /\ run.op = "search"
    /\ run' = Idle
    /\ UNCHANGED <<db, conn, prev, ncmd>>

NextSearch == Search \/ SendJson

SpecSearch == InitSearch /\ [][NextSearch]_vars

(* The records of the scope that the query matches: in segmented mode the  *)
(* records whose text has, for every term, a word starting with it; in     *)
(* substring mode the records whose text (for a link: URL, title,          *)
(* description or site name) holds the stripped query                      *)
Matches(query, mode, texts) ==
    LET wanted == str_lower(strip(query))
    IN IF mode = "fts"
       THEN \A term \in Range(split(wanted)) :
               \E t \in texts : startswith(str_lower(t), term)
       ELSE \E t \in texts : contains(str_lower(t), wanted)
MatchingPosts(query, mode) ==
    {id \in DOMAIN db.plurks : Matches(query, mode, {TextOf(db.plurks[id].content_raw)})}
MatchingReplies(query, mode) ==
    {id \in DOMAIN db.responses :
        Matches(query, mode, {TextOf(db.responses[id].content_raw)})}
MatchingLinks(query, mode) ==
    {u \in DOMAIN db.links :
        Matches(query, mode,
                {TextOf(v) : v \in {db.links[u].og_title, db.links[u].og_description,
                                    db.links[u].og_site_name} \ {NULL}}
                \cup (IF mode = "fts" THEN {} ELSE {UrlText(u)}))}
MatchingRecords(search_type, query, mode) ==
    CASE search_type = "plurks" -> Cardinality(MatchingPosts(query, mode))
      [] search_type = "responses" -> Cardinality(MatchingReplies(query, mode))
      [] search_type = "links" -> Cardinality(MatchingLinks(query, mode))
      [] search_type = "all" ->
            Cardinality(MatchingPosts(query, mode)) + Cardinality(MatchingReplies(query, mode))

(* C20: for any query, scope and mode, search returns page equal to the    *)
(* requested page number, total equal to the number of matching records,   *)
(* and pages = max(1, ceil(total / 50)); for every requested page number   *)
(* >= pages the result list is empty.                                      *)
C20_Pagination ==
    run.op = "search" =>
      LET r == run.response
          total == MatchingRecords(run.search_type, run.query, run.mode)
          up == (total + RESULTS_PER_PAGE - 1) \div RESULTS_PER_PAGE
      IN /\ ~r.raised
         /\ r.page = run.page
         /\ r.total = total
         /\ r.pages >= 1 /\ r.pages >= up /\ r.pages \in {1, up}
         /\ run.page >= r.pages => r.results = <<>>


(* C21: every search response, for every scope and both modes, contains at *)
(* most the fixed page size of 50 results.                                 *)
C21_AtMostOnePage ==
    run.op = "search" => Len(run.response.results) <= RESULTS_PER_PAGE

(* The matching records of a content table that fall on the requested page *)
(* of that table: those with at least page * 50 and fewer than             *)
(* (page + 1) * 50 matching records of the table posted after them         *)
PostedKey(row) == IF row.posted = NoPosted THEN <<>> ELSE TimestampText(row.posted)
OnPage(table, ids, page) ==
    {id \in ids :
        LET newer == Cardinality({other \in ids :
                                    LexLess(PostedKey(table[id]), PostedKey(table[other]))})
        IN newer >= page * RESULTS_PER_PAGE /\ newer < (page + 1) * RESULTS_PER_PAGE}

(* C22: in scope all, the result list holds the matching posts and replies *)
(* (of the requested page) merged into one list ordered by posted          *)
(* timestamp descending, in the lexicographic order of the stored text, a  *)
(* missing timestamp sorting as the empty string.                          *)
C22_AllMergedByPostedDesc ==
    (run.op = "search" /\ run.search_type = "all" /\ ~run.response.raised) =>
      LET results == run.response.results
          posts == OnPage(db.plurks, MatchingPosts(run.query, run.mode), run.page)
          replies == OnPage(db.responses, MatchingReplies(run.query, run.mode), run.page)
      IN /\ \A i \in 1..(Len(results) - 1) :
                ~LexLess(results[i].posted, results[i + 1].posted)
         /\ Len(results) = Cardinality(posts) + Cardinality(replies)
         /\ {<<r.type, r.id>> : r \in Range(results)}
              = {<<"plurk", id>> : id \in posts} \cup {<<"response", id>> : id \in replies}

C22_Witness ==
    /\ run.op = "search" /\ run.search_type = "all" /\ ~run.response.raised
    /\ \E i \in 1..Len(run.response.results), j \in 1..Len(run.response.results) :
         /\ i < j
         /\ run.response.results[i].type = "response"
         /\ run.response.results[j].type = "plurk"
         /\ LexLess(run.response.results[j].posted, run.response.results[i].posted)
    /\ \E k \in 1..Len(run.response.results) : run.response.results[k].posted = None


(* The records a response shows, and the records of the scope that match *)
Shown(results) ==
    {<<r.type, IF r.type = "link" THEN r.url ELSE r.id>> : r \in Range(results)}
MatchingSet(search_type, query, mode) ==
    (IF search_type \in {"plurks", "all"}
     THEN {<<"plurk", id>> : id \in MatchingPosts(query, mode)} ELSE {})
    \cup (IF search_type \in {"responses", "all"}
          THEN {<<"response", id>> : id \in MatchingReplies(query, mode)} ELSE {})
    \cup (IF search_type = "links"
          THEN {<<"link", u>> : u \in MatchingLinks(query, mode)} ELSE {})

(* C30: for a fixed store, query, scope and mode, the result lists of      *)
(* pages 0 .. pages-1 together contain every matching record exactly once: *)
(* none is missing from all pages and none appears on two pages, scope all *)
(* included, where posts and replies are paged separately and then merged. *)
C30_PagesPartitionMatches ==
    (run.op = "search" /\ ~run.response.raised /\ run.page = 0) =>
      LET lists == {<<p, search(db, run.query, run.search_type, run.mode, p).results>> :
                       p \in 0..(run.response.pages - 1)}
          shown == {<<l[1], Shown(l[2])>> : l \in lists}
          matching == MatchingSet(run.search_type, run.query, run.mode)
      IN /\ \A l \in lists : Len(l[2]) = Cardinality(Shown(l[2]))
         /\ \A s \in shown : s[2] \subseteq matching
         /\ \A m \in matching : Cardinality({s \in shown : m \in s[2]}) = 1

C30_Witness ==
    /\ run.op = "search" /\ ~run.response.raised /\ run.page = 0
    /\ run.search_type = "all"
    /\ run.response.pages > 2
    /\ Len(run.response.results) > RESULTS_PER_PAGE


(* The day count that orders timestamps and dates chronologically *)
DayNumber(d) == (d.year * 12 + (d.month - 1)) * 31 + (d.day - 1)

(* C24: the timestamp that calculate_scan_range takes as the latest        *)
(* imported timestamp is the posted value of the chronologically most      *)
(* recent stored post, for any mix of stored posting-timestamp texts.      *)
C24_LatestIsMostRecent ==
    (run.op = "scan" /\ DOMAIN conn.plurks # {}) =>
      \A id \in DOMAIN conn.plurks :
          DayNumber(conn.plurks[id].posted) <= DayNumber(max_posted(conn).value)

----------------------------------------------------------------------------
(* One incremental run of build_database over an archive whose files are   *)
(* well formed                                                             *)

(* filter_plurk_files: the files, sorted by name, whose month key is in    *)
(* the range                                                               *)
filter_plurk_files(plurk_files, scan_start, scan_end) ==
    LET in_range(file) == in_scan_range(file.stem, scan_start, scan_end)
    IN SelectSeq(plurk_files, in_range)

(* get_base_ids_from_plurks *)
get_base_ids_from_plurks(plurk_files) ==
    UNION {base_ids_of(parse_plurk_file(plurk_files[i]).records) : i \in 1..Len(plurk_files)}

(* filter_response_files: the files named after one of the base ids *)
all_response_files(response_files, base_ids) == response_files
filter_response_files(response_files, base_ids) ==
    LET named(file) == file.stem \in base_ids
    IN IF base_ids = {} THEN <<>> ELSE SelectSeq(response_files, named)

(* The reply files of an archive: for each of the two threads none, an     *)
(* empty one, or one with a reply                                          *)
ThreadFiles(id) ==
    {<<>>} \cup {<<File(BaseIdOf(id), "ok", records)>> :
                    records \in SeqsUpTo(ThreadRecords(BaseIdOf(id)), 1)}
Archives ==
    {[plurks |-> plurk_files, responses |-> first \o second] :
        plurk_files \in PlurkFileLists, first \in ThreadFiles(1), second \in ThreadFiles(2)}

(* The store of an earlier run: empty, or with post 1 (June 2025), post 2  *)
(* (December 2025), or post 2 and a reply                                  *)
StoresBefore ==
    EarlierStores \cup
    {import_plurks(FreshStore,
                   <<File(PlurkStem(2025, 12), "ok", <<PlurkRecord(2, "a")>>)>>).c}

InitRun ==
    /\ \E store \in StoresBefore : db = store /\ conn = store
    /\ \E archive \in Archives : run = [op |-> "archive", archive |-> archive]
    /\ prev = NoRebuild
    /\ ncmd = 0

(* build_database on the existing store: from calculate_scan_range to      *)
(* conn.commit()                                                           *)
IncrementalRun ==
    /\ run.op = "archive"
    /\ \E today \in Todays :
         LET range == calculate_scan_range(conn, today)
             plurk_files == filter_plurk_files(run.archive.plurks,
                                               range.scan_start, range.scan_end)
             p == import_plurks(conn, plurk_files)
             base_ids == get_base_ids_from_plurks(plurk_files)
             response_files == filter_response_files(run.archive.responses, base_ids)
             r == import_responses(p.c, response_files)
         IN /\ conn' = r.c
            /\ db' = r.c
            /\ run' = [op |-> "ran", archive |-> run.archive, before |-> Rows(conn),
                       scan_start |-> range.scan_start, scan_end |-> range.scan_end,
                       plurk_new |-> p.new_count, response_new |-> r.new_count]
    /\ UNCHANGED <<prev, ncmd>>

NextRun == IncrementalRun

SpecRun == InitRun /\ [][NextRun]_vars

(* The post files of the archive whose month key lies in the range, and    *)
(* the reply files of the threads of their posts                           *)
PostFilesInRange ==
    {f \in Range(run.archive.plurks) :
        /\ LexLeq(run.scan_start, replace_underscore(f.stem))
        /\ LexLeq(replace_underscore(f.stem), run.scan_end)}
ReplyFilesOfRange ==
    {f \in Range(run.archive.responses) :
        \E g \in PostFilesInRange : \E i \in 1..Len(g.records) : g.records[i].base_id = f.stem}

(* C23: after a successful incremental run with scan range [s, e] the      *)
(* store holds a row for the identifier of every record of every post file *)
(* whose month key lies in [s, e] and of every reply file whose thread id  *)
(* belongs to a post of one of those files, and the run adds no row from   *)
(* any other file.                                                         *)
C23_RunImportsRangeOnly ==
    (run.op = "ran" /\ run.scan_start # None) =>
      /\ \A f \in PostFilesInRange : \A i \in 1..Len(f.records) :
             f.records[i].id \in DOMAIN db.plurks
      /\ \A f \in ReplyFilesOfRange : \A i \in 1..Len(f.records) :
             f.records[i].id \in DOMAIN db.responses
      /\ \A id \in DOMAIN db.plurks \ DOMAIN run.before.plurks :
             \E f \in PostFilesInRange : \E i \in 1..Len(f.records) :
                 f.records[i].id = id /\ db.plurks[id] = PlurkRow(f.records[i])
      /\ \A id \in DOMAIN db.responses \ DOMAIN run.before.responses :
             \E f \in ReplyFilesOfRange : \E i \in 1..Len(f.records) :
                 /\ f.records[i].id = id
                 /\ db.responses[id] = ResponseRow(f.stem, f.records[i])
      /\ \A id \in DOMAIN run.before.plurks : db.plurks[id] = run.before.plurks[id]
      /\ \A id \in DOMAIN run.before.responses : db.responses[id] = run.before.responses[id]

(* A run that leaves a post file and a thread's reply file outside its     *)
(* range, and imports a reply to a post that was stored before             *)
C23_Witness ==
    /\ run.op = "ran" /\ run.scan_start # None
    /\ Range(run.archive.plurks) \ PostFilesInRange # {}
    /\ \E f \in Range(run.archive.responses) \ ReplyFilesOfRange : f.records # <<>>
    /\ \E id \in DOMAIN db.responses \ DOMAIN run.before.responses :
         \E p \in DOMAIN run.before.plurks :
             run.before.plurks[p].base_id = db.responses[id].base_id


----------------------------------------------------------------------------
(* Extraction runs and metadata-fetch passes on one link table: the whole  *)
(* of cmd_extract up to its commit, then the pass of                       *)
(* cmd_fetch_previews_internal step by step                                *)

LinkStatuses == {"pending", "success", "no_og", "timeout", "failed", "image"}

(* What OGFetcher.fetch may return for url: one result for each status *)
FetchResults(url) ==
    {OGResult(url, "success", "T", "D", NULL)} \cup
    {OGResult(url, status, NULL, NULL, NULL) : status \in {"no_og", "image", "timeout", "failed"}}

InitPasses ==
    /\ db = create_link_metadata_table(connect(NoFile))
    /\ conn = db
    /\ run = Idle
    /\ prev = NoRebuild
    /\ ncmd = 0

(* The pass that cmd_fetch_previews_internal starts on connection c *)
pass_of(c, cmd, limit, url_filter) ==
    LET pending_urls == IF url_filter # <<>> THEN select_filtered(c, url_filter)
                        ELSE select_pending(c, limit)
    IN [op |-> "pass", pc |-> IF pending_urls = <<>> THEN "end" ELSE "loop",
        limit |-> limit, url_filter |-> url_filter, pending_urls |-> pending_urls,
        i |-> 1, start |-> c.links, results |-> <<>>, cmd |-> cmd]

(* cmd_extract: the URLs found in the month's files are upserted and       *)
(* committed; with --fetch-previews the pass starts with the list of these *)
(* URLs as url_filter                                                      *)
ExtractRun ==
    /\ run.op = "idle" /\ ncmd < MaxPasses
    /\ \E extracted \in SUBSET Range(FetchUrls), fetch_previews \in BOOLEAN :
         LET in_month(u) == u \in extracted
             all_url_sources == SelectSeq(FetchUrls, in_month)
             saved == upsert_all(create_link_metadata_table(connect(db)), FetchUrls, extracted)
         IN /\ db' = saved
            /\ conn' = saved
            /\ run' = IF fetch_previews THEN pass_of(saved, "extract", 0, all_url_sources)
                      ELSE Idle
    /\ ncmd' = ncmd + 1
    /\ UNCHANGED prev

(* cmd_fetch_previews: no url_filter, the limit of the command line *)
FetchRun ==
    /\ run.op = "idle" /\ ncmd < MaxPasses
    /\ \E limit \in 0..MaxLimit : run' = pass_of(conn, "fetch", limit, None)
    /\ ncmd' = ncmd + 1
    /\ UNCHANGED <<db, conn, prev>>

(* fetcher.fetch(url) returns *)
PassFetched ==
    /\ run.op = "pass" /\ run.pc = "loop"
    /\ \E result \in FetchResults(run.pending_urls[run.i]) :
         run' = [run EXCEPT !.pc = "got", !.results = Append(@, result)]
    /\ UNCHANGED <<db, conn, prev, ncmd>>

NextPasses ==
    \/ ExtractRun \/ FetchRun \/ PassFetched \/ PassUpdate \/ PassCommit \/ PassInterrupt
    \/ PassExit

SpecPasses == InitPasses /\ [][NextPasses]_vars

(* The URLs a pass has fetched so far *)
FetchedUrls == {run.results[j].url : j \in 1..Len(run.results)}

(* C28: the metadata fetch that follows an extraction run started with the *)
(* fetch-previews option, a run that extracts no URL included, fetches and *)
(* modifies no Link Record but those of the URLs extracted in that run.    *)
C28_PreviewsOfThisRunOnly ==
    (run.op = "pass" /\ run.cmd = "extract") =>
        /\ FetchedUrls \subseteq Range(run.url_filter)
        /\ Range(run.pending_urls) \subseteq Range(run.url_filter)
        /\ \A u \in DOMAIN run.start \ Range(run.url_filter) :
              conn.links[u] = run.start[u] /\ db.links[u] = run.start[u]


(* The fields of a Link Record that a fetch sets, but for the timestamp *)
StatusAndText(row) == <<row.status, row.og_title, row.og_description, row.og_site_name>>

StatusesKnown(c) == \A u \in DOMAIN c.links : c.links[u].status \in LinkStatuses

NonPendingKept ==
    \A u \in DOMAIN db.links :
        db.links[u].status # "pending" =>
            /\ u \in DOMAIN db'.links
            /\ StatusAndText(db'.links[u]) = StatusAndText(db.links[u])

(* C26: every Link Record's status is one of pending, success, no_og,      *)
(* timeout, failed, image; and once a stored record's status is not        *)
(* 'pending', no step of a later extraction run or metadata-fetch pass     *)
(* changes its status, title, description or site name.                    *)
C26_NonPendingIsFinal ==
    /\ [](StatusesKnown(db) /\ StatusesKnown(conn))
    /\ [][NonPendingKept]_vars

(* A second command has extracted again a URL whose fetch had timed out,   *)
(* and a pass after it has fetched another URL                             *)
C26_Witness ==
    /\ run.op = "pass" /\ run.pc = "end" /\ run.cmd = "extract" /\ ncmd = 2
    /\ run.results # <<>>
    /\ \E u \in Range(run.url_filter) :
         /\ u \in DOMAIN db.links
         /\ db.links[u].status = "timeout"
         /\ u \notin FetchedUrls
    /\ \E u \in DOMAIN db.links : db.links[u].status = "image" /\ db.links[u].fetched_at # NULL


----------------------------------------------------------------------------
(* update_og_metadata applied to any result, for a stored URL or not,      *)
(* among upserts                                                           *)

LinkUpdate ==
    /\ run.op = "links" /\ run.n < MaxLinkCalls
    /\ \E url \in LinkUrls : \E result \in FetchResults(url) :
         /\ conn' = update_og_metadata(conn, result)
         /\ run' = [run EXCEPT !.last = "update", !.n = @ + 1, !.url = url,
                               !.before = conn.links, !.returned = FALSE]
    /\ UNCHANGED <<db, prev, ncmd>>

NextUpdate == LinkUpsert \/ LinkUpdate

SpecUpdate == InitLinks /\ [][NextUpdate]_vars

(* C29: a metadata-fetch update changes only the status, title,            *)
(* description, site name and fetch timestamp of the Link Record with the  *)
(* fetched URL: it changes no record's reference sets, creates no Link     *)
(* Record (a result for a URL that is not stored changes nothing) and      *)
(* deletes none.                                                           *)
C29_UpdateTouchesOneRecordsMetadata ==
    (run.op = "links" /\ run.last = "update") =>
        /\ DOMAIN conn.links = DOMAIN run.before
        /\ \A u \in DOMAIN run.before :
              /\ conn.links[u].sources = run.before[u].sources
              /\ conn.links[u].rowid = run.before[u].rowid
              /\ u # run.url => conn.links[u] = run.before[u]
        /\ run.url \notin DOMAIN run.before => conn.links = run.before

(* An update for a URL that is not stored, on a table where an earlier     *)
(* update has set the status of a stored record with two references        *)
C29_Witness ==
    /\ run.op = "links" /\ run.last = "update"
    /\ run.url \notin DOMAIN run.before
    /\ \E u \in DOMAIN conn.links :
         /\ conn.links[u].status = "no_og"
         /\ Len(conn.links[u].sources.plurk_ids) = 2


----------------------------------------------------------------------------
(* The fetch command repeated on a link table into which nothing new is    *)
(* extracted; the process may be stopped MaxInterrupts times               *)

InitRepeat ==
    /\ db \in FetchStores
    /\ conn = db
    /\ run = Idle
    /\ prev = NoRebuild
    /\ ncmd = 0

RepeatPass ==
    /\ run.op = "idle"
    /\ \E limit \in 0..MaxLimit : run' = pass_of(conn, "fetch", limit, None)
    /\ UNCHANGED <<db, conn, prev, ncmd>>

(* The process stops during the loop; ncmd counts the interruptions *)
RepeatInterrupt ==
    /\ ncmd < MaxInterrupts
    /\ run.op = "pass" /\ run.pc \in {"loop", "got", "updated"}
    /\ conn' = db
    /\ run' = [run EXCEPT !.pc = "stopped"]
    /\ ncmd' = ncmd + 1
    /\ UNCHANGED <<db, prev>>

PassStep == PassFetched \/ PassUpdate \/ PassCommit \/ PassExit

NextRepeat == RepeatPass \/ RepeatInterrupt \/ PassStep

(* The operator starts the command again, and a process that is not        *)
(* stopped goes on                                                         *)
SpecRepeat ==
    InitRepeat /\ [][NextRepeat]_vars /\ WF_vars(RepeatPass) /\ WF_vars(PassStep)

PendingIn(links) == {u \in DOMAIN links : links[u].status = "pending"}

Min(a, b) == IF a <= b THEN a ELSE b

(* An uninterrupted pass with k pending links at its start ends with       *)
(* k - min(L, k) of them, none when L = 0                                  *)
PassEndCount ==
    (run.op = "pass" /\ run.pc = "end") =>
        LET k == Cardinality(PendingIn(run.start))
        IN Cardinality(PendingIn(db.links)) =
               IF run.limit = 0 THEN 0 ELSE k - Min(run.limit, k)

(* A fetch is never made for a URL whose result is committed *)
NoRefetch ==
    (run.op = "pass" /\ run'.op = "pass" /\ Len(run'.results) > Len(run.results)) =>
        LET url == run'.results[Len(run'.results)].url
        IN db.links[url].status = "pending" /\ db.links[url].fetched_at = NULL

====
